---------------------------- MODULE Spec2Model ----------------------------
(***************************************************************************)
(* A model of the Hammer Sampler engine (midi-keyboard-display).           *)
(*                                                                         *)
(* Part R  - the per-voice SPSC ring buffer and the streaming voice's      *)
(*           underrun handling (StreamingVoice.h / DiskStreaming.h are not *)
(*           among the sources; this part follows spec section 4.2).       *)
(* Part L  - a library load running beside the audio thread                *)
(*           (Source/SamplerEngine.cpp, Source/PluginProcessor.cpp), and   *)
(*           the newer streaming engine's noteOn / noteOff.                *)
(* Part E  - the RAM engine's voices and envelope and the MIDI dispatch of *)
(*           MidiKeyboardProcessor::processBlock.                          *)
(* Part M  - the instrument map a load builds from the file names, the     *)
(*           lookups on it, and the selective preload (the engine that has *)
(*           the two preload limits is not among the sources; that part    *)
(*           follows spec section 4.4).                                    *)
(* Part P  - load requests and their loader threads, the processor's       *)
(*           setters and setStateInformation.                              *)
(* Part N  - the file-name parser, parseNoteName and parseFileName, on     *)
(*           texts of characters.                                          *)
(* Part W  - one streaming voice and the disk thread's refill under the    *)
(*           low watermark (not among the sources; this part follows spec  *)
(*           sections 4.2, 4.5 and 4.6).                                   *)
(* Part D  - the DiskStreamer's tick over several streaming voices (not    *)
(*           among the sources; this part follows spec section 4.6).       *)
(* Part O  - transpose and sample offset on the path of a note.            *)
(* Part S  - voice allocation and stealing in the streaming noteOn.        *)
(* Part K  - prepareToPlay of the processor and of the engine.             *)
(*                                                                         *)
(* Specifications: SpecRing (Part R), SpecLoad and SpecStream (Part L),    *)
(* SpecBurst, SpecPedal, SpecRelease, SpecPool, SpecEnvelope and SpecBlock *)
(* (Part E, each with the messages and the size of the voice array named   *)
(* in its Next and Init), SpecMap, SpecFind, SpecPreload and SpecScenario  *)
(* (Part M), SpecJoin, SpecRestore and SpecSetter (Part P), SpecNoteName   *)
(* and SpecFileName (Part N), SpecWatermark (Part W), SpecStreamer         *)
(* (Part D), SpecOffset (Part O), SpecSteal (Part S), and SpecPrepare,     *)
(* SpecSlot and SpecLevel (Parts E and K).                                 *)
(***************************************************************************)
EXTENDS Integers, Sequences, FiniteSets, TLC

(***************************************************************************)
(* Bounds of the model.                                                    *)
(***************************************************************************)
RingN == 3            \* ring capacity N in frames (32768 in the program)
MaxFrames == 5        \* frames the producer delivers before the model stops it
MaxReq == 2           \* largest frame count one read or write call asks for
MaxUnderruns == 2     \* cap of the underrun counter in the guards
NumStreamVoices == 2  \* streaming voice slots (maxStreamingVoices in the program)
MaxLoads == 2         \* library loads the UI thread requests
MaxLogLines == 2      \* cap of the debug-log lines the audio thread appends
PedalVoices == 2      \* RAM voice slots of the engine under pedal messages
ReleaseVoices == 1    \* RAM voice slots of the engine under note-offs and rendering
BurstVoices == 5      \* RAM voice slots of the engine under note-on bursts
BlockSize == 2        \* largest frame count of one process-block call
SampleLen == 6        \* frames of every sample of the library
MaxNote == 3          \* highest MIDI note (127 in the program)
MaxVelocity == 4      \* highest MIDI velocity (127 in the program)
MaxFiles == 2         \* most files of one sample folder
BytesPerSample == 4   \* bytes of one float sample
DefaultPreloadSizeKB == 64
MaxRequests == 3       \* calls of loadSamplesFromFolder
MaxNameLen == 3       \* characters of the note names tried
MaxSuffixes == 2      \* suffix tokens after the round-robin token
MaxTicks == 2         \* disk ticks counted between two audio callbacks

Min(a, b) == IF a < b THEN a ELSE b
Max(a, b) == IF a > b THEN a ELSE b

VARIABLES
    \* ---- ring buffer of one voice -------------------------------------
    ring,          \* ring[i], i in 0..N-1: the frame stored in slot i (0: none)
    readPos,       \* frames consumed so far (atomic, written by the audio thread)
    writePos,      \* frames produced so far (atomic, written by the disk thread)
    pcW,           \* disk thread: "idle" | "copy"
    wN,            \* frames the current write() will store
    wI,            \* frames the current write() has stored so far
    pcR,           \* audio thread: "idle" | "copy"
    rReq,          \* frames the current read() was asked for
    rAvail,        \* available_to_read() the current read() saw
    rN,            \* frames the current read() will copy
    rDst,          \* frames copied by the current read()
    readLog,       \* every frame ever returned by read(), in order
    lastOut,       \* output of the last finished render call (0 = silence)
    underrunCount, \* process-wide underrun counter
    lastOp,        \* the operation that produced this state
    \* ---- library load beside the audio thread ---------------------------
    mappingsMutex,     \* owner of SamplerEngine::mappingsMutex: "none" or a thread
    loadingState,      \* LoadingState: "Idle" | "Loading" | "Loaded"
    loaderPc,          \* position of the loader thread ("none": never started)
    loaderIdx,         \* voice index of the loader's stop loop
    loaderFolder,      \* notes that have a file in the folder being loaded
    tempSamples,       \* the loader's tempSamples: [gen, notes]
    streamingSamples,  \* the published sample set: [gen, notes]
    noteMappings,      \* published noteMappings: notes that have own layers
    streamingVoices,   \* per slot: [active, note, gen] (gen: set its sample is in)
    registered,        \* per slot: registered with the DiskStreamer
    audioPc,           \* position of the audio thread inside a note-on
    audioNote,         \* note of the note-on being handled
    audioLogLines,     \* lines the audio thread appended to the debug log file
    loadsStarted,      \* loads requested so far
    \* ---- RAM engine and MIDI dispatch ----------------------------------
    maxVoices,         \* SamplerEngine::maxVoices, the size of the voice array
    voices,            \* SamplerEngine::voices, per slot a Voice record
    adsrParams,        \* [attack, decay, sustain, release], times in frames
    sustainPedalDown,  \* MidiKeyboardProcessor::sustainPedalDown
    noteSustained,     \* notes whose noteSustained flag is set
    currentRoundRobin, \* 1..3
    transposeAmount,   \* semitones added to incoming note numbers
    lastEvent,         \* the message or call handled last
    offCalls,          \* notes the last message passed to the engine's noteOff
    relAge,            \* per voice: frames rendered since noteOff released it
    relBound,          \* per voice: adsrParams.release at that noteOff
    offAge,            \* per voice: frames rendered since the last noteOff on its note
    offBound,          \* per voice: adsrParams.release at that noteOff
    \* ---- instrument map -----------------------------------------------
    libSamples,        \* the samples of the loaded folder, in scan order
    libMappings,       \* noteMappings: per note [present, fallbackNote, velocityLayers]
    lastFind,          \* the last call on the map and its result
    velocityLayerLimit,  \* velocity layers in use (selective preload)
    roundRobinLimit,     \* round-robin positions in use (selective preload)
    preloadSizeKB,       \* SamplerEngine::preloadSizeKB
    preload,             \* per sample: [preloaded, frames] of its preload buffer
    preloadMemoryBytes,  \* SamplerEngine::preloadMemoryBytes
    \* ---- load requests and the processor's settings --------------------
    requestPc,         \* thread inside loadSamplesFromFolder: "idle" | "join" | "start"
    requestFolder,     \* the folder that call was given
    requestCount,      \* calls of loadSamplesFromFolder so far
    loaders,           \* per call: [pc, folder] of the loader thread it started
    loadingThread,     \* SamplerEngine::loadingThread: the call whose thread it holds, 0 if none
    loadedFolderPath,  \* SamplerEngine::loadedFolderPath
    waited,            \* calls made while the previous loader thread was running
    sampleOffsetAmount,  \* MidiKeyboardProcessor::sampleOffsetAmount
    lastCall,          \* the last call on the processor and its argument
    \* ---- file-name parsing ---------------------------------------------
    parseText,         \* the text given to the parser
    lastParse,         \* the parser's call and what it returned
    \* ---- a streaming voice and the disk thread --------------------------
    streamVoice,       \* the voice: play position, stream position, ring counts
    streamSched,       \* ticks since the last callback, and what that callback saw
    \* ---- the disk streamer over several voices --------------------------
    streamer           \* the voices, the tick's queue and the last step; and
                       \* startOrder: the engine's voice slots, the least
                       \* recently started first

loadVars == <<mappingsMutex, loadingState, loaderPc, loaderIdx, loaderFolder,
              tempSamples, streamingSamples, noteMappings, streamingVoices,
              registered, audioPc, audioNote, audioLogLines, loadsStarted>>

ringVars == <<ring, readPos, writePos, pcW, wN, wI, pcR, rReq, rAvail, rN,
              rDst, readLog, lastOut, underrunCount, lastOp>>

engineVars == <<maxVoices, voices, adsrParams, sustainPedalDown, noteSustained,
                currentRoundRobin, transposeAmount, lastEvent, offCalls,
                relAge, relBound, offAge, offBound>>

libVars == <<libSamples, libMappings, velocityLayerLimit, roundRobinLimit,
             preloadSizeKB, preload, preloadMemoryBytes>>

mapVars == <<libVars, lastFind>>

procVars == <<requestPc, requestFolder, requestCount, loaders, loadingThread,
              loadedFolderPath, waited, sampleOffsetAmount, lastCall>>

auxVars == <<parseText, lastParse, streamVoice, streamSched, streamer>>

vars == <<ringVars, loadVars, engineVars, mapVars, procVars, auxVars>>

notRingVars == <<loadVars, engineVars, mapVars, procVars, auxVars>>
notLoadVars == <<ringVars, engineVars, mapVars, procVars, auxVars>>
notEngineVars == <<ringVars, loadVars, mapVars, procVars, auxVars>>
notMapVars == <<ringVars, loadVars, engineVars, procVars, auxVars>>
notAuxVars == <<ringVars, loadVars, engineVars, mapVars, procVars>>

\* What the calls on the processor leave alone in the other parts.
loadRest == <<mappingsMutex, loaderPc, loaderIdx, loaderFolder, tempSamples,
              streamingSamples, streamingVoices, registered, audioPc, audioNote,
              audioLogLines, loadsStarted>>
engineRest == <<maxVoices, voices, sustainPedalDown, noteSustained,
                currentRoundRobin, lastEvent, offCalls, relAge, relBound,
                offAge, offBound>>
libRest == <<libSamples, libMappings, velocityLayerLimit, roundRobinLimit,
             preload, preloadMemoryBytes, lastFind>>

(***************************************************************************)
(* RingBuffer operations (spec 4.2).                                       *)
(***************************************************************************)
Slot(pos) == pos % RingN

\* available_to_read(): write_pos (acquire) - read_pos
AvailableToRead(w, r) == w - r

AvailableToWriteFull(w, r) == RingN
\* available_to_write(): N - (write_pos - read_pos (acquire))
AvailableToWrite(w, r) == RingN - (w - r)

ReadCountAll(n, avail) == n
\* read(dst, n) copies min(n, available_to_read()) frames
ReadCount(n, avail) == Min(n, avail)

\* The frame of the source file that the producer stores as its k-th frame.
SourceFrame(k) == k

RingInit ==
    /\ ring = [i \in 0..(RingN - 1) |-> 0]
    /\ readPos = 0
    /\ writePos = 0
    /\ pcW = "idle"
    /\ wN = 0
    /\ wI = 0
    /\ pcR = "idle"
    /\ rReq = 0
    /\ rAvail = 0
    /\ rN = 0
    /\ rDst = <<>>
    /\ readLog = <<>>
    /\ lastOut = <<>>
    /\ underrunCount = 0
    /\ lastOp = "init"

\* write(src, n), first step: the disk thread loads read_pos and sizes the copy.
WriteBegin(n) ==
    /\ pcW = "idle"
    /\ writePos < MaxFrames
    /\ pcW' = "copy"
    /\ wN' = Min(Min(n, MaxFrames - writePos), AvailableToWrite(writePos, readPos))
    /\ wI' = 0
    /\ lastOp' = "writeBegin"
    /\ UNCHANGED <<ring, readPos, writePos, pcR, rReq, rAvail, rN, rDst,
                   readLog, lastOut, underrunCount>>
    /\ UNCHANGED notRingVars

\* write(), one frame copied into the slot after write_pos, wrapping at N.
WriteCopy ==
    /\ pcW = "copy"
    /\ wI < wN
    /\ ring' = [ring EXCEPT ![Slot(writePos + wI)] = SourceFrame(writePos + wI + 1)]
    /\ wI' = wI + 1
    /\ lastOp' = "writeCopy"
    /\ UNCHANGED <<readPos, writePos, pcW, wN, pcR, rReq, rAvail, rN, rDst,
                   readLog, lastOut, underrunCount>>
    /\ UNCHANGED notRingVars

\* write(), last step: write_pos advances with release ordering.
WritePublish ==
    /\ pcW = "copy"
    /\ wI = wN
    /\ writePos' = writePos + wN
    /\ pcW' = "idle"
    /\ lastOp' = "writePublish"
    /\ UNCHANGED <<ring, readPos, wN, wI, pcR, rReq, rAvail, rN, rDst,
                   readLog, lastOut, underrunCount>>
    /\ UNCHANGED notRingVars

\* The audio callback asks the voice for n frames; read(dst, n) loads
\* write_pos and sizes the copy.  It never waits for the producer.
ReadBegin(n) ==
    /\ pcR = "idle"
    /\ underrunCount < MaxUnderruns
    /\ pcR' = "copy"
    /\ rReq' = n
    /\ rAvail' = AvailableToRead(writePos, readPos)
    /\ rN' = ReadCount(n, AvailableToRead(writePos, readPos))
    /\ rDst' = <<>>
    /\ lastOp' = "readBegin"
    /\ UNCHANGED <<ring, readPos, writePos, pcW, wN, wI, readLog, lastOut,
                   underrunCount>>
    /\ UNCHANGED notRingVars

\* read(), one frame copied from the slot after read_pos, wrapping at N.
ReadCopy ==
    /\ pcR = "copy"
    /\ Len(rDst) < rN
    /\ rDst' = Append(rDst, ring[Slot(readPos + Len(rDst))])
    /\ lastOp' = "readCopy"
    /\ UNCHANGED <<ring, readPos, writePos, pcW, wN, wI, pcR, rReq, rAvail, rN,
                   readLog, lastOut, underrunCount>>
    /\ UNCHANGED notRingVars

Silence(k) == [i \in 1..k |-> 0]

UnderrunAfterNever(count, starved) == count
\* The starved part of a render call is counted as one underrun.
UnderrunAfter(count, starved) == IF starved > 0 THEN count + 1 ELSE count

\* read(), last step: read_pos advances with release ordering; the voice
\* pads the frames it could not get with silence and counts the underrun.
ReadPublish ==
    /\ pcR = "copy"
    /\ Len(rDst) = rN
    /\ readPos' = readPos + rN
    /\ readLog' = readLog \o rDst
    /\ lastOut' = rDst \o Silence(rReq - rN)
    /\ underrunCount' = UnderrunAfter(underrunCount, rReq - rN)
    /\ pcR' = "idle"
    /\ lastOp' = "readPublish"
    /\ UNCHANGED <<ring, writePos, pcW, wN, wI, rReq, rAvail, rN, rDst>>
    /\ UNCHANGED notRingVars

\* StreamingVoice::resetUnderrunCount(), reached from
\* SamplerEngine::resetUnderrunCount().
ResetUnderrunCount ==
    /\ underrunCount > 0
    /\ underrunCount' = 0
    /\ lastOp' = "resetUnderrun"
    /\ UNCHANGED <<ring, readPos, writePos, pcW, wN, wI, pcR, rReq, rAvail, rN,
                   rDst, readLog, lastOut>>
    /\ UNCHANGED notRingVars


(***************************************************************************)
(* Part L: SamplerEngine's streaming load, and the audio thread's note-on  *)
(* running beside it.                                                      *)
(***************************************************************************)
LoadNotes == {60, 61}            \* notes the host plays
LoadFolders == {{60}, {62}}      \* libraries: the notes that have a file

VoiceSlots == 1..NumStreamVoices

SampleOffsets == {0, 1}          \* values of the sample-offset knob

IdleStreamingVoice == [active |-> FALSE, note |-> 0, gen |-> 0,
                       stage |-> "Idle", fading |-> FALSE]

\* StreamingVoice::startVoice: the voice plays a sample of set gen, in Attack.
StartVoice(note, gen) == [active |-> TRUE, note |-> note, gen |-> gen,
                          stage |-> "Attack", fading |-> FALSE]

\* StreamingVoice::stopVoice(allowTailOff): release, or stop at once.
StopVoice(voice, allowTailOff) ==
    IF allowTailOff THEN [voice EXCEPT !.stage = "Release"]
    ELSE [voice EXCEPT !.active = FALSE, !.stage = "Idle", !.fading = FALSE]

\* StreamingVoice::startQuickFadeOut: the 10 ms gain ramp to zero.
StartQuickFadeOut(voice) == [voice EXCEPT !.fading = TRUE]

LoadInit ==
    /\ mappingsMutex = "none"
    /\ loadingState = "Idle"
    /\ loaderPc = "none"
    /\ loaderIdx = 0
    /\ loaderFolder = {}
    /\ tempSamples = [gen |-> 0, notes |-> {}]
    /\ streamingSamples = [gen |-> 0, notes |-> {}]
    /\ noteMappings = {}
    /\ streamingVoices = [v \in VoiceSlots |-> IdleStreamingVoice]
    /\ registered = [v \in VoiceSlots |-> TRUE]
    /\ audioPc = "idle"
    /\ audioNote = 0
    /\ audioLogLines = 0
    /\ loadsStarted = 0

\* The fallback table built by the load: the smallest higher note with layers.
FallbackNote(own, n) ==
    IF n \in own \/ {h \in own : h > n} = {} THEN -1
    ELSE CHOOSE h \in own : h > n /\ \A k \in own : k > n => h <= k

\* Notes that have an entry in noteMappings (own layers or a fallback).
HasMapping(own, n) == n \in own \/ FallbackNote(own, n) >= 0

\* findStreamingSample: the note whose sample is played, or -1 (nullptr).
FindStreamingSample(samples, own, n) ==
    LET actualNote == IF HasMapping(own, n) /\ FallbackNote(own, n) >= 0
                      THEN FallbackNote(own, n) ELSE n
    IN IF actualNote \in samples.notes /\ actualNote \in own
       THEN actualNote ELSE -1

\* loadSamplesStreamingFromFolder on the UI thread: join the previous loader,
\* then start the next one.
LoadSamplesStreamingFromFolder(folder) ==
    /\ loadsStarted < MaxLoads
    /\ loaderPc \in {"none", "done"}
    /\ loadingState' = "Loading"
    /\ loaderFolder' = folder
    /\ loaderPc' = "stop"
    /\ loaderIdx' = 1
    /\ loadsStarted' = loadsStarted + 1
    /\ UNCHANGED <<mappingsMutex, tempSamples, streamingSamples, noteMappings,
                   streamingVoices, registered, audioPc, audioNote,
                   audioLogLines>>
    /\ UNCHANGED notLoadVars

\* Loader: stopVoice(false) and unregisterVoice(i), one voice per step.
LoaderStopVoice ==
    /\ loaderPc = "stop"
    /\ streamingVoices' = [streamingVoices EXCEPT
                               ![loaderIdx] = StopVoice(@, FALSE)]
    /\ registered' = [registered EXCEPT ![loaderIdx] = FALSE]
    /\ IF loaderIdx = NumStreamVoices
       THEN loaderPc' = "scan" /\ loaderIdx' = 0
       ELSE loaderPc' = "stop" /\ loaderIdx' = loaderIdx + 1
    /\ UNCHANGED <<mappingsMutex, loadingState, loaderFolder, tempSamples,
                   streamingSamples, noteMappings, audioPc, audioNote,
                   audioLogLines, loadsStarted>>
    /\ UNCHANGED notLoadVars

\* Loader: the 20 ms sleep and the scan of the folder into tempSamples.
LoaderScan ==
    /\ loaderPc = "scan"
    /\ tempSamples' = [gen |-> streamingSamples.gen + 1, notes |-> loaderFolder]
    /\ loaderPc' = "lockSamples"
    /\ UNCHANGED <<mappingsMutex, loadingState, loaderIdx, loaderFolder,
                   streamingSamples, noteMappings, streamingVoices, registered,
                   audioPc, audioNote, audioLogLines, loadsStarted>>
    /\ UNCHANGED notLoadVars

\* Loader: lock_guard on mappingsMutex before either swap.
LoaderLock ==
    /\ loaderPc \in {"lockSamples", "lockMappings"}
    /\ mappingsMutex = "none"
    /\ mappingsMutex' = "loader"
    /\ loaderPc' = IF loaderPc = "lockSamples" THEN "swapSamples" ELSE "swapMappings"
    /\ UNCHANGED <<loadingState, loaderIdx, loaderFolder, tempSamples,
                   streamingSamples, noteMappings, streamingVoices, registered,
                   audioPc, audioNote, audioLogLines, loadsStarted>>
    /\ UNCHANGED notLoadVars

\* Loader: streamingSamples = std::move(tempSamples), then unlock.
LoaderSwapSamples ==
    /\ loaderPc = "swapSamples"
    /\ streamingSamples' = tempSamples
    /\ mappingsMutex' = "none"
    /\ loaderPc' = "lockMappings"
    /\ UNCHANGED <<loadingState, loaderIdx, loaderFolder, tempSamples,
                   noteMappings, streamingVoices, registered, audioPc,
                   audioNote, audioLogLines, loadsStarted>>
    /\ UNCHANGED notLoadVars

\* Loader: noteMappings = std::move(tempMappings) (built from the published
\* streamingSamples), then unlock.
LoaderSwapMappings ==
    /\ loaderPc = "swapMappings"
    /\ noteMappings' = streamingSamples.notes
    /\ mappingsMutex' = "none"
    /\ loaderPc' = "register"
    /\ UNCHANGED <<loadingState, loaderIdx, loaderFolder, tempSamples,
                   streamingSamples, streamingVoices, registered, audioPc,
                   audioNote, audioLogLines, loadsStarted>>
    /\ UNCHANGED notLoadVars

\* Loader: re-register every voice, loadingState = Loaded.
LoaderRegister ==
    /\ loaderPc = "register"
    /\ registered' = [v \in VoiceSlots |-> TRUE]
    /\ loadingState' = "Loaded"
    /\ loaderPc' = "done"
    /\ UNCHANGED <<mappingsMutex, loaderIdx, loaderFolder, tempSamples,
                   streamingSamples, noteMappings, streamingVoices, audioPc,
                   audioNote, audioLogLines, loadsStarted>>
    /\ UNCHANGED notLoadVars

\* Audio thread, processBlock's note-on branch: getVelocityLayerIndex takes
\* mappingsMutex (and waits while the loader holds it).
AudioGetVelocityLayerIndex(n) ==
    /\ audioPc = "idle"
    /\ audioLogLines < MaxLogLines
    /\ mappingsMutex = "none"
    /\ mappingsMutex' = "audio"
    /\ audioPc' = "layerIndex"
    /\ audioNote' = n
    /\ UNCHANGED <<loadingState, loaderPc, loaderIdx, loaderFolder, tempSamples,
                   streamingSamples, noteMappings, streamingVoices, registered,
                   audioLogLines, loadsStarted>>
    /\ UNCHANGED notLoadVars

\* Audio thread: getVelocityLayerIndex returns and releases the mutex.
AudioLayerIndexReturn ==
    /\ audioPc = "layerIndex"
    /\ mappingsMutex' = "none"
    /\ audioPc' = "noteOn"
    /\ UNCHANGED <<loadingState, loaderPc, loaderIdx, loaderFolder, tempSamples,
                   streamingSamples, noteMappings, streamingVoices, registered,
                   audioNote, audioLogLines, loadsStarted>>
    /\ UNCHANGED notLoadVars

\* The slot noteOnStreaming starts the voice in: the first inactive one, or
\* slot 1 (streamingVoices[0]) when all are active.
SlotForNoteOn(svs) ==
    IF \E v \in VoiceSlots : ~svs[v].active
    THEN CHOOSE v \in VoiceSlots :
             ~svs[v].active /\ \A u \in VoiceSlots : ~svs[u].active => v <= u
    ELSE 1

\* Audio thread: noteOn -> noteOnStreaming.  Without a sample it writes a line
\* to the debug log file and returns; with one it starts a voice that points
\* into the published streamingSamples, and writes a line too unless the
\* voice had to be stolen.
AudioNoteOnStreaming ==
    /\ audioPc = "noteOn"
    /\ LET found == FindStreamingSample(streamingSamples, noteMappings, audioNote)
           slot == SlotForNoteOn(streamingVoices)
       IN streamingVoices' =
              IF found < 0 THEN streamingVoices
              ELSE [streamingVoices EXCEPT ![slot] =
                       StartVoice(audioNote, streamingSamples.gen)]
    /\ audioLogLines' =
           IF FindStreamingSample(streamingSamples, noteMappings, audioNote) < 0
              \/ \E v \in VoiceSlots : ~streamingVoices[v].active
           THEN audioLogLines + 1
           ELSE audioLogLines
    /\ audioPc' = "idle"
    /\ UNCHANGED <<mappingsMutex, loadingState, loaderPc, loaderIdx,
                   loaderFolder, tempSamples, streamingSamples, noteMappings,
                   registered, audioNote, loadsStarted>>
    /\ UNCHANGED notLoadVars

\* Audio thread: a process-block call in which voice v plays to its end.
AudioVoiceEnds(v) ==
    /\ audioPc = "idle"
    /\ streamingVoices[v].active
    /\ streamingVoices' = [streamingVoices EXCEPT ![v] = StopVoice(@, FALSE)]
    /\ UNCHANGED <<mappingsMutex, loadingState, loaderPc, loaderIdx,
                   loaderFolder, tempSamples, streamingSamples, noteMappings,
                   registered, audioPc, audioNote, audioLogLines, loadsStarted>>
    /\ UNCHANGED notLoadVars

(***************************************************************************)
(* Part E: the RAM sampler engine (SamplerEngine::noteOn, noteOff,         *)
(* processBlock, setADSR) driven by MidiKeyboardProcessor::processBlock.   *)
(* Envelope levels are integers, Unit standing for 1.0f; times are frames. *)
(* A voice's position is counted in 1/PosUnit frames.                      *)
(***************************************************************************)
Unit == 48
PosUnit == 8
VoiceIds == 1..maxVoices
Keys == {60, 62}                 \* note numbers of the incoming messages
Velocities == {100, 127}         \* velocities of the incoming note-ons
BurstKeys == {62}                \* the note of a same-note burst
ControllerValues == {63, 64}      \* values of the incoming controller-64 messages
RamFolders == {{62}}             \* libraries: the notes that have files
LayerTop == [n \in 0..127 |-> 100]   \* velocityValue of a note's only layer
RoundRobins == {1, 2, 3}         \* round-robin positions that have a file
SampleLength == [n \in 0..127 |-> SampleLen]
\* setADSR arguments <<attack, decay, sustain, release>> the UI passes
InitialADSR == <<2, 2, 24, 4>>
ADSRInputs == {InitialADSR, <<0, 1, 0, 1>>}
MinStageFrames == 1              \* 0.001f seconds, in frames

IdleVoice == [active |-> FALSE, sample |-> -1, position |-> 0,
              pitchRatio |-> PosUnit, midiNote |-> 0, envStage |-> "Idle",
              envLevel |-> 0, envIncrement |-> 0]

\* A setADSR that takes the sustain level as it comes.
ClampADSRTimesOnly(in) == [attack  |-> Max(MinStageFrames, in[1]),
                           decay   |-> Max(MinStageFrames, in[2]),
                           sustain |-> in[3],
                           release |-> Max(MinStageFrames, in[4])]

\* setADSR's clamping of its arguments.
ClampADSR(in) == [attack  |-> Max(MinStageFrames, in[1]),
                  decay   |-> Max(MinStageFrames, in[2]),
                  sustain |-> Min(Unit, Max(0, in[3])),
                  release |-> Max(MinStageFrames, in[4])]

NoEvent == [type |-> "none", note |-> 0, value |-> 0, found |-> FALSE]

\* The engine after construction with a voice array of n slots, and after the
\* editor has set the first ADSR setting (the constructed defaults, 10 ms,
\* 100 ms, 0.7 and 300 ms, are thousands of frames long).
EngineInit(n) ==
    /\ maxVoices = n
    /\ voices = [v \in 1..n |-> IdleVoice]
    /\ adsrParams = ClampADSR(InitialADSR)
    /\ sustainPedalDown = FALSE
    /\ noteSustained = {}
    /\ currentRoundRobin = 1
    /\ lastEvent = NoEvent
    /\ offCalls = {}
    /\ transposeAmount = 0
    /\ relAge = [v \in 1..n |-> -1]
    /\ relBound = [v \in 1..n |-> 0]
    /\ offAge = [v \in 1..n |-> -1]
    /\ offBound = [v \in 1..n |-> 0]

\* findSample: the note whose sample is returned, or -1 for nullptr.
FindSample(own, midiNote, velocity, roundRobin) ==
    IF ~HasMapping(own, midiNote) THEN -1
    ELSE LET actualNote == IF FallbackNote(own, midiNote) >= 0
                           THEN FallbackNote(own, midiNote) ELSE midiNote
         IN IF actualNote \notin own THEN -1
            ELSE IF velocity >= 1 /\ velocity <= LayerTop[actualNote]
                    /\ roundRobin >= 1 /\ roundRobin <= 3
                    \* the requested position, else the first one present
                    /\ (roundRobin \in RoundRobins \/ RoundRobins # {})
                 THEN actualNote
                 ELSE -1

\* 2^(semitoneDiff/12) in 1/PosUnit, rounded (the fallback is never lower).
PitchRatio(semitoneDiff) ==
    CASE semitoneDiff = 0 -> PosUnit
      [] semitoneDiff = -1 -> PosUnit
      [] semitoneDiff = -2 -> PosUnit - 1
      [] OTHER -> PosUnit - 2

\* The voice noteOn takes: the first inactive one, else the first one with
\* the largest position.
VoiceToUse(vs) ==
    IF \E v \in VoiceIds : ~vs[v].active
    THEN CHOOSE v \in VoiceIds :
             ~vs[v].active /\ \A u \in VoiceIds : ~vs[u].active => v <= u
    ELSE CHOOSE v \in VoiceIds :
             /\ \A u \in VoiceIds : vs[u].position <= vs[v].position
             /\ \A u \in VoiceIds : vs[u].position = vs[v].position => v <= u

AttackIncrement(params) == Unit \div params.attack

EngineNoteOnGrowing(vs, params, own, midiNote, velocity, roundRobin) ==
    LET actualSampleNote == FindSample(own, midiNote, velocity, roundRobin)
    IN IF actualSampleNote < 0 THEN vs
       ELSE Append(vs, [active |-> TRUE, sample |-> actualSampleNote,
                        position |-> 0,
                        pitchRatio |-> PitchRatio(midiNote - actualSampleNote),
                        midiNote |-> midiNote, envStage |-> "Attack",
                        envLevel |-> 0,
                        envIncrement |-> AttackIncrement(params)])

\* SamplerEngine::noteOn on the voice array.
EngineNoteOn(vs, params, own, midiNote, velocity, roundRobin) ==
    LET actualSampleNote == FindSample(own, midiNote, velocity, roundRobin)
        v == VoiceToUse(vs)
    IN IF actualSampleNote < 0 THEN vs
       ELSE [vs EXCEPT ![v] =
                [active |-> TRUE, sample |-> actualSampleNote, position |-> 0,
                 pitchRatio |-> PitchRatio(midiNote - actualSampleNote),
                 midiNote |-> midiNote, envStage |-> "Attack",
                 envLevel |-> 0, envIncrement |-> AttackIncrement(params)]]

\* The voices noteOff puts into Release.
ReleasedByNoteOff(vs, midiNote) ==
    {v \in VoiceIds : vs[v].active /\ vs[v].midiNote = midiNote
                      /\ vs[v].envStage # "Release"}

ReleaseIncrementUp(level, params) == level \div params.release

ReleaseIncrement(level, params) == (-level) \div params.release

EngineNoteOffCutting(vs, params, midiNote) ==
    [v \in VoiceIds |->
        IF v \in ReleasedByNoteOff(vs, midiNote)
        THEN [vs[v] EXCEPT !.envStage = "Idle"]
        ELSE vs[v]]

\* SamplerEngine::noteOff on the voice array.
EngineNoteOff(vs, params, midiNote) ==
    [v \in VoiceIds |->
        IF v \in ReleasedByNoteOff(vs, midiNote)
        THEN [vs[v] EXCEPT !.envStage = "Release",
                           !.envIncrement = ReleaseIncrement(vs[v].envLevel, params)]
        ELSE vs[v]]

RECURSIVE EngineNoteOffs(_, _, _)
\* noteOff for each note of a set, in ascending order (the pedal's up-edge).
EngineNoteOffs(vs, params, notes) ==
    IF notes = {} THEN vs
    ELSE LET n == CHOOSE m \in notes : \A k \in notes : m <= k
         IN EngineNoteOffs(EngineNoteOff(vs, params, n), params, notes \ {n})

DecayIncrement(params) == (params.sustain - Unit) \div params.decay

RECURSIVE RenderVoice(_, _, _)
\* processBlock's inner loop: n frames of one voice.
RenderVoice(voice, params, n) ==
    IF n = 0 THEN voice
    ELSE IF voice.position >= (SampleLength[voice.sample] - 1) * PosUnit
            \/ voice.envStage = "Idle"
    THEN [voice EXCEPT !.active = FALSE, !.sample = -1, !.envStage = "Idle"]
    ELSE LET level == voice.envLevel + voice.envIncrement
             stepped ==
               CASE voice.envStage = "Attack" ->
                      IF level >= Unit
                      THEN [voice EXCEPT !.envLevel = Unit, !.envStage = "Decay",
                                         !.envIncrement = DecayIncrement(params)]
                      ELSE [voice EXCEPT !.envLevel = level]
                 [] voice.envStage = "Decay" ->
                      IF level <= params.sustain
                      THEN [voice EXCEPT !.envLevel = params.sustain,
                                         !.envStage = "Sustain",
                                         !.envIncrement = 0]
                      ELSE [voice EXCEPT !.envLevel = level]
                 [] voice.envStage = "Sustain" ->
                      [voice EXCEPT !.envLevel = params.sustain]
                 [] voice.envStage = "Release" ->
                      IF level <= 0
                      THEN [voice EXCEPT !.envLevel = 0, !.envStage = "Idle",
                                         !.active = FALSE, !.sample = -1]
                      ELSE [voice EXCEPT !.envLevel = level]
         IN IF stepped.envStage = "Idle"
            THEN stepped
            ELSE RenderVoice([stepped EXCEPT !.position = @ + voice.pitchRatio],
                             params, n - 1)

\* SamplerEngine::processBlock on the voice array.
EngineProcessBlock(vs, params, n) ==
    [v \in VoiceIds |->
        IF ~vs[v].active \/ vs[v].sample < 0 THEN vs[v]
        ELSE RenderVoice(vs[v], params, n)]

\* History of the releases: frames rendered since a note-off put the voice
\* into Release (relAge) or found it active on its note (offAge); -1: none.
StartAges(age, started) ==
    [v \in VoiceIds |-> IF v \in started THEN 0 ELSE age[v]]

StartBounds(bound, started, params) ==
    [v \in VoiceIds |-> IF v \in started THEN params.release ELSE bound[v]]

AdvanceAges(age, bound, vs, n) ==
    [v \in VoiceIds |->
        IF age[v] < 0 THEN age[v]
        ELSE IF ~vs[v].active THEN -1
        ELSE Min(age[v] + n, bound[v] + BlockSize)]

ActiveOn(vs, notes) ==
    {v \in VoiceIds : vs[v].active /\ vs[v].midiNote \in notes}

FreshOn(vs, notes) ==
    {v \in VoiceIds : vs[v].active /\ vs[v].midiNote \in notes
                      /\ vs[v].envStage # "Release"}

MidiNote(key, transpose) == Min(127, Max(0, key + transpose))

\* A note-on that leaves the note's sustained flag as it is.
HandleNoteOnKeepingFlag(key, velocity) ==
    LET midiNote == MidiNote(key, transposeAmount)
        found == FindSample(noteMappings, midiNote, velocity, currentRoundRobin) >= 0
        started == IF found THEN {VoiceToUse(voices)} ELSE {}
    IN /\ voices' = EngineNoteOn(voices, adsrParams, noteMappings, midiNote,
                                 velocity, currentRoundRobin)
       /\ currentRoundRobin' = (currentRoundRobin % 3) + 1
       /\ lastEvent' = [type |-> "noteOn", note |-> midiNote,
                        value |-> velocity, found |-> found]
       /\ offCalls' = {}
       /\ relAge' = [v \in VoiceIds |-> IF v \in started THEN -1 ELSE relAge[v]]
       /\ offAge' = [v \in VoiceIds |-> IF v \in started THEN -1 ELSE offAge[v]]
       /\ UNCHANGED <<maxVoices, adsrParams, sustainPedalDown, transposeAmount,
                      relBound, offBound, noteSustained>>
       /\ UNCHANGED notEngineVars

\* processBlock, a note-on message.
HandleNoteOn(key, velocity) ==
    LET midiNote == MidiNote(key, transposeAmount)
        found == FindSample(noteMappings, midiNote, velocity, currentRoundRobin) >= 0
        started == IF found THEN {VoiceToUse(voices)} ELSE {}
    IN /\ noteSustained' = noteSustained \ {midiNote}
       /\ voices' = EngineNoteOn(voices, adsrParams, noteMappings, midiNote,
                                 velocity, currentRoundRobin)
       /\ currentRoundRobin' = (currentRoundRobin % 3) + 1
       /\ lastEvent' = [type |-> "noteOn", note |-> midiNote,
                        value |-> velocity, found |-> found]
       /\ offCalls' = {}
       /\ relAge' = [v \in VoiceIds |-> IF v \in started THEN -1 ELSE relAge[v]]
       /\ offAge' = [v \in VoiceIds |-> IF v \in started THEN -1 ELSE offAge[v]]
       /\ UNCHANGED <<maxVoices, adsrParams, sustainPedalDown, transposeAmount,
                      relBound, offBound>>
       /\ UNCHANGED notEngineVars

\* processBlock, a note-off message.
HandleNoteOff(key) ==
    LET midiNote == MidiNote(key, transposeAmount)
    IN /\ IF sustainPedalDown
          THEN /\ noteSustained' = noteSustained \cup {midiNote}
               /\ offCalls' = {}
               /\ UNCHANGED <<voices, relAge, relBound, offAge, offBound>>
          ELSE /\ voices' = EngineNoteOff(voices, adsrParams, midiNote)
               /\ offCalls' = {midiNote}
               /\ relAge' = StartAges(relAge, FreshOn(voices, {midiNote}))
               /\ relBound' = StartBounds(relBound, FreshOn(voices, {midiNote}),
                                          adsrParams)
               /\ offAge' = StartAges(offAge, ActiveOn(voices, {midiNote}))
               /\ offBound' = StartBounds(offBound, ActiveOn(voices, {midiNote}),
                                          adsrParams)
               /\ UNCHANGED noteSustained
       /\ lastEvent' = [type |-> "noteOff", note |-> midiNote, value |-> 0,
                        found |-> FALSE]
       /\ UNCHANGED <<maxVoices, adsrParams, sustainPedalDown,
                      currentRoundRobin, transposeAmount>>
       /\ UNCHANGED notEngineVars

PedalNowDownAlways(value) == TRUE

PedalNowDown(value) == value >= 64

\* processBlock, a controller-64 message.
HandleSustainPedal(value) ==
    LET pedalNowDown == PedalNowDown(value)
    IN /\ IF ~pedalNowDown /\ sustainPedalDown
          THEN /\ voices' = EngineNoteOffs(voices, adsrParams, noteSustained)
               /\ offCalls' = noteSustained
               /\ noteSustained' = {}
               /\ relAge' = StartAges(relAge, FreshOn(voices, noteSustained))
               /\ relBound' = StartBounds(relBound, FreshOn(voices, noteSustained),
                                          adsrParams)
               /\ offAge' = StartAges(offAge, ActiveOn(voices, noteSustained))
               /\ offBound' = StartBounds(offBound, ActiveOn(voices, noteSustained),
                                          adsrParams)
          ELSE /\ offCalls' = {}
               /\ UNCHANGED <<voices, noteSustained, relAge, relBound, offAge,
                              offBound>>
       /\ sustainPedalDown' = pedalNowDown
       /\ lastEvent' = [type |-> "cc64", note |-> 0, value |-> value,
                        found |-> FALSE]
       /\ UNCHANGED <<maxVoices, adsrParams, currentRoundRobin, transposeAmount>>
       /\ UNCHANGED notEngineVars

\* processBlock's last call: samplerEngine.processBlock(buffer), n frames.
RenderBlock(n) ==
    /\ voices' = EngineProcessBlock(voices, adsrParams, n)
    /\ relAge' = AdvanceAges(relAge, relBound, voices', n)
    /\ offAge' = AdvanceAges(offAge, offBound, voices', n)
    /\ lastEvent' = [type |-> "render", note |-> 0, value |-> 0, found |-> FALSE]
    /\ offCalls' = {}
    /\ UNCHANGED <<maxVoices, adsrParams, sustainPedalDown, noteSustained,
                   currentRoundRobin, transposeAmount, relBound, offBound>>
    /\ UNCHANGED notEngineVars

\* setADSR from the editor.
SetADSR(in) ==
    /\ adsrParams' = ClampADSR(in)
    /\ lastEvent' = [type |-> "setADSR", note |-> 0, value |-> 0, found |-> FALSE]
    /\ offCalls' = {}
    /\ UNCHANGED <<maxVoices, voices, sustainPedalDown, noteSustained,
                   currentRoundRobin, transposeAmount, relAge, relBound,
                   offAge, offBound>>
    /\ UNCHANGED notEngineVars

\* loadSamplesFromFolder: the loader's swap of noteMappings after a RAM load.
LoadSamplesInBackground(folder) ==
    /\ loaderPc \in {"none", "done"}
    /\ mappingsMutex = "none"
    /\ noteMappings' = folder
    /\ loadingState' = "Loaded"
    /\ lastEvent' = [type |-> "load", note |-> 0, value |-> 0, found |-> FALSE]
    /\ offCalls' = {}
    /\ UNCHANGED <<mappingsMutex, loaderPc, loaderIdx, loaderFolder, tempSamples,
                   streamingSamples, streamingVoices, registered, audioPc,
                   audioNote, audioLogLines, loadsStarted>>
    /\ UNCHANGED <<maxVoices, voices, adsrParams, sustainPedalDown,
                   noteSustained, currentRoundRobin, transposeAmount, relAge,
                   relBound, offAge, offBound>>
    /\ UNCHANGED <<auxVars, ringVars, mapVars, procVars>>

\* Note-ons of one note and rendering.
BurstNext ==
    \/ \E k \in BurstKeys, vel \in Velocities : HandleNoteOn(k, vel)
    \/ \E n \in 1..BlockSize : RenderBlock(n)
    \/ \E f \in RamFolders : LoadSamplesInBackground(f)

\* The messages of one process-block call: both keys and the pedal.
PedalNext ==
    \/ \E k \in Keys, vel \in Velocities : HandleNoteOn(k, vel)
    \/ \E k \in Keys : HandleNoteOff(k)
    \/ \E value \in ControllerValues : HandleSustainPedal(value)
    \/ \E f \in RamFolders : LoadSamplesInBackground(f)

\* getActiveVoiceCount with streaming off: the voices whose active flag is set.
GetActiveVoiceCount == Cardinality({v \in DOMAIN voices : voices[v].active})

PoolVelocities == {100}

\* Every kind of event on the pool: note-ons, note-offs, the pedal, rendering.
PoolNext ==
    \/ \E k \in Keys, vel \in PoolVelocities : HandleNoteOn(k, vel)
    \/ \E k \in Keys : HandleNoteOff(k)
    \/ \E value \in ControllerValues : HandleSustainPedal(value)
    \/ RenderBlock(BlockSize)
    \/ \E f \in RamFolders : LoadSamplesInBackground(f)

\* Note-ons and note-offs of one key, rendering, and the editor's ADSR knobs.
ReleaseNext ==
    \/ \E k \in BurstKeys, vel \in Velocities : HandleNoteOn(k, vel)
    \/ \E k \in BurstKeys : HandleNoteOff(k)
    \/ \E n \in 1..BlockSize : RenderBlock(n)
    \/ \E in \in ADSRInputs : SetADSR(in)
    \/ \E f \in RamFolders : LoadSamplesInBackground(f)

\* The MIDI buffers of one process-block call: at most two note-ons, each with
\* its sample position inside the block, in the buffer's order (a MidiBuffer
\* keeps its messages sorted by sample position).
BufferMessages == [samplePosition : 0..(BlockSize - 1), key : Keys]
MidiBuffers ==
    {<<>>}
    \cup {<<m>> : m \in BufferMessages}
    \cup {b \in [1..2 -> BufferMessages] :
              b[1].samplePosition <= b[2].samplePosition}

\* The output frame processBlock's frame loop starts every voice at
\* (for (int i = 0; ...), renderNextBlock(buffer, 0, numSamples)).
RenderStartSample == 0

RECURSIVE BufferNoteOns(_, _, _, _, _)
\* processBlock's message loop over a buffer of note-ons: the voices and the
\* round-robin position after it.
BufferNoteOns(vs, params, own, roundRobin, messages) ==
    IF messages = <<>> THEN [voices |-> vs, roundRobin |-> roundRobin]
    ELSE BufferNoteOns(
             EngineNoteOn(vs, params, own, MidiNote(Head(messages).key,
                                                    transposeAmount),
                          100, roundRobin),
             params, own, (roundRobin % 3) + 1, Tail(messages))

\* One processBlock call with a buffer of note-ons: the message loop, then
\* samplerEngine.processBlock(buffer) over the whole block.
ProcessBlock(messages) ==
    LET after == BufferNoteOns(voices, adsrParams, noteMappings,
                               currentRoundRobin, messages)
        changed == {v \in VoiceIds : after.voices[v] # voices[v]}
        frames == BlockSize - RenderStartSample
    IN /\ noteSustained' = noteSustained
              \ {MidiNote(messages[i].key, transposeAmount) :
                     i \in 1..Len(messages)}
       /\ voices' = EngineProcessBlock(after.voices, adsrParams, frames)
       /\ currentRoundRobin' = after.roundRobin
       /\ relAge' = AdvanceAges([v \in VoiceIds |->
                                    IF v \in changed THEN -1 ELSE relAge[v]],
                                relBound, voices', frames)
       /\ offAge' = AdvanceAges([v \in VoiceIds |->
                                    IF v \in changed THEN -1 ELSE offAge[v]],
                                offBound, voices', frames)
       /\ lastEvent' = [type |-> "render", note |-> 0, value |-> 0,
                        found |-> FALSE]
       /\ offCalls' = {}
       /\ UNCHANGED <<maxVoices, adsrParams, sustainPedalDown, transposeAmount,
                      relBound, offBound>>
       /\ UNCHANGED notEngineVars

\* Blocks that carry note-ons at sample positions, on a loaded library.
BlockNext ==
    \/ \E messages \in MidiBuffers : ProcessBlock(messages)
    \/ \E f \in RamFolders : LoadSamplesInBackground(f)

\* The envelope seen frame by frame: note-ons and note-offs of one key, the
\* ADSR knobs, and process-block calls of one frame.
EnvelopeNext ==
    \/ \E k \in BurstKeys, vel \in PoolVelocities : HandleNoteOn(k, vel)
    \/ \E k \in BurstKeys : HandleNoteOff(k)
    \/ RenderBlock(1)
    \/ \E in \in ADSRInputs : SetADSR(in)
    \/ \E f \in RamFolders : LoadSamplesInBackground(f)

\* The newer engine's noteOn (streaming only): the voices already playing the
\* note get a quick fade-out, then the note starts in the first inactive
\* slot, or in slot 1 (streamingVoices[0]) after stopping it.
StreamingNoteOn(midiNote, sampleOffset) ==
    LET sampleNote == Min(127, Max(0, midiNote + sampleOffset))
        found == FindStreamingSample(streamingSamples, noteMappings, sampleNote)
        faded == [v \in VoiceSlots |->
                     IF streamingVoices[v].active /\ streamingVoices[v].note = midiNote
                     THEN StartQuickFadeOut(streamingVoices[v])
                     ELSE streamingVoices[v]]
    IN /\ audioPc = "idle"
       /\ streamingVoices' =
              IF found < 0 THEN streamingVoices
              ELSE [faded EXCEPT ![SlotForNoteOn(faded)] =
                       StartVoice(midiNote, streamingSamples.gen)]
       /\ UNCHANGED <<mappingsMutex, loadingState, loaderPc, loaderIdx,
                      loaderFolder, tempSamples, streamingSamples, noteMappings,
                      registered, audioPc, audioNote, audioLogLines,
                      loadsStarted>>
       /\ UNCHANGED notLoadVars

\* The newer engine's noteOff: stopVoice(true) on every voice of the note.
StreamingNoteOff(midiNote) ==
    /\ audioPc = "idle"
    /\ streamingVoices' =
           [v \in VoiceSlots |->
               IF streamingVoices[v].active /\ streamingVoices[v].note = midiNote
               THEN StopVoice(streamingVoices[v], TRUE)
               ELSE streamingVoices[v]]
    /\ UNCHANGED <<mappingsMutex, loadingState, loaderPc, loaderIdx, loaderFolder,
                   tempSamples, streamingSamples, noteMappings, registered,
                   audioPc, audioNote, audioLogLines, loadsStarted>>
    /\ UNCHANGED notLoadVars

\* A library load beside the newer engine's note-ons and note-offs.
StreamNext ==
    \/ \E f \in LoadFolders : LoadSamplesStreamingFromFolder(f)
    \/ LoaderStopVoice
    \/ LoaderScan
    \/ LoaderLock
    \/ LoaderSwapSamples
    \/ LoaderSwapMappings
    \/ LoaderRegister
    \/ \E n \in LoadNotes, o \in SampleOffsets : StreamingNoteOn(n, o)
    \/ \E n \in LoadNotes : StreamingNoteOff(n)
    \/ \E v \in VoiceSlots : AudioVoiceEnds(v)

LoadNext ==
    \/ \E f \in LoadFolders : LoadSamplesStreamingFromFolder(f)
    \/ LoaderStopVoice
    \/ LoaderScan
    \/ LoaderLock
    \/ LoaderSwapSamples
    \/ LoaderSwapMappings
    \/ LoaderRegister
    \/ \E n \in LoadNotes : AudioGetVelocityLayerIndex(n)
    \/ AudioLayerIndexReturn
    \/ AudioNoteOnStreaming
    \/ \E v \in VoiceSlots : AudioVoiceEnds(v)

RingNext ==
    \/ \E n \in 1..MaxReq : WriteBegin(n)
    \/ WriteCopy
    \/ WritePublish
    \/ \E n \in 1..MaxReq : ReadBegin(n)
    \/ ReadCopy
    \/ ReadPublish
    \/ ResetUnderrunCount

(***************************************************************************)
(* Part M - the instrument map: what a library load builds from the parsed *)
(* file names (velocity layers, velocity ranges, note fallbacks) and the   *)
(* lookups on it.                                                          *)
(***************************************************************************)
MidiNotes == 0..MaxNote
MidiVelocities == 1..MaxVelocity
\* What parseFileName returns for the files of the model's folders: two
\* notes with two velocities each, and one note with two velocities and two
\* round-robin positions.
MapFiles == [midiNote : {1, 2}, velocity : {2, 4}, roundRobin : {1}]
FindFiles == [midiNote : {1}, velocity : {2, 4}, roundRobin : {1, 2}]

\* The folders made of the given files: the parsed files in the order
\* findChildFiles lists them.
Folders(parsed) == UNION {[1..n -> parsed] : n \in 0..MaxFiles}

\* No entry in noteMappings for the note.
NoMapping == [present |-> FALSE, fallbackNote |-> -1, velocityLayers |-> <<>>]

\* The find-or-create loop of the loader over the first k files: the
\* velocity values of a note's layers, in the order the layers are created.
RECURSIVE CreateLayers(_, _, _)
CreateLayers(files, note, k) ==
    IF k = 0 THEN <<>>
    ELSE LET before == CreateLayers(files, note, k - 1)
             f == files[k]
         IN IF f.midiNote = note
               /\ \A i \in 1..Len(before) : before[i] # f.velocity
            THEN Append(before, f.velocity)
            ELSE before

\* std::sort of the layers by velocityValue, ascending.
RECURSIVE SortLayers(_)
SortLayers(values) ==
    IF values = <<>> THEN <<>>
    ELSE LET lo == CHOOSE i \in 1..Len(values) :
                       \A j \in 1..Len(values) : values[i] <= values[j]
             rest == [j \in 1..(Len(values) - 1) |->
                         IF j < lo THEN values[j] ELSE values[j + 1]]
         IN <<values[lo]>> \o SortLayers(rest)

\* A slot that keeps the first file written to it.
RoundRobinSampleFirst(files, note, velocity, rr) ==
    LET hits == {i \in 1..Len(files) :
                    /\ files[i].midiNote = note
                    /\ files[i].velocity = velocity
                    /\ files[i].roundRobin = rr}
    IN IF hits = {} THEN 0 ELSE CHOOSE i \in hits : \A j \in hits : i <= j

\* roundRobinSamples[rr] of a layer: the last file of the folder with this
\* note, velocity and round-robin position (its index in files), 0 if none.
RoundRobinSample(files, note, velocity, rr) ==
    LET hits == {i \in 1..Len(files) :
                    /\ files[i].midiNote = note
                    /\ files[i].velocity = velocity
                    /\ files[i].roundRobin = rr}
    IN IF hits = {} THEN 0 ELSE CHOOSE i \in hits : \A j \in hits : j <= i

RangeStartFromOne(sorted, i) == 1

\* velocityRangeStart of the i-th layer of a sorted layer list.
RangeStart(sorted, i) == IF i = 1 THEN 1 ELSE sorted[i - 1] + 1

\* buildVelocityRanges for one note: the sorted layers with their ranges.
BuildVelocityRanges(files, note) ==
    LET sorted == SortLayers(CreateLayers(files, note, Len(files)))
    IN [i \in 1..Len(sorted) |->
           [velocityValue |-> sorted[i],
            velocityRangeStart |-> RangeStart(sorted, i),
            velocityRangeEnd |-> sorted[i],
            roundRobinSamples |->
                [rr \in RoundRobins |-> RoundRobinSample(files, note, sorted[i], rr)]]]

\* tempMappings before the fallbacks are built: an entry for every note that
\* has a file.
OwnMappings(files) ==
    [n \in MidiNotes |->
        IF \E i \in 1..Len(files) : files[i].midiNote = n
        THEN [present |-> TRUE, fallbackNote |-> -1,
              velocityLayers |-> BuildVelocityRanges(files, n)]
        ELSE NoMapping]

HighestHigherNote(m, note) ==
    LET higher == {h \in (note + 1)..MaxNote : m[h].present}
    IN IF higher = {} THEN -1 ELSE CHOOSE h \in higher : \A g \in higher : g <= h

\* The inner loop of buildNoteFallbacks: the first higher note that has an
\* entry in the map, -1 if there is none.
NextHigherNote(m, note) ==
    LET higher == {h \in (note + 1)..MaxNote : m[h].present}
    IN IF higher = {} THEN -1 ELSE CHOOSE h \in higher : \A g \in higher : h <= g

\* buildNoteFallbacks from note n upwards: a note with an entry gets
\* fallbackNote -1, a note without one gets a placeholder entry if a higher
\* note has an entry.
RECURSIVE BuildNoteFallbacks(_, _)
BuildNoteFallbacks(m, n) ==
    IF n > MaxNote THEN m
    ELSE IF m[n].present
         THEN BuildNoteFallbacks([m EXCEPT ![n].fallbackNote = -1], n + 1)
         ELSE LET fallback == NextHigherNote(m, n)
              IN BuildNoteFallbacks(
                     IF fallback >= 0
                     THEN [m EXCEPT ![n] = [present |-> TRUE,
                                            fallbackNote |-> fallback,
                                            velocityLayers |-> <<>>]]
                     ELSE m,
                     n + 1)

\* The map a load publishes for a folder.
BuildMappings(files) == BuildNoteFallbacks(OwnMappings(files), 0)

\* isNoteAvailable.
IsNoteAvailable(m, note) ==
    m[note].present /\ (m[note].velocityLayers # <<>> \/ m[note].fallbackNote >= 0)

\* noteHasOwnSamples.
NoteHasOwnSamples(m, note) == m[note].present /\ m[note].velocityLayers # <<>>

ActualNoteItself(m, midiNote) == midiNote

\* The note whose samples a lookup for midiNote uses.
ActualNote(m, midiNote) ==
    IF m[midiNote].present /\ m[midiNote].fallbackNote >= 0
    THEN m[midiNote].fallbackNote
    ELSE midiNote

\* The first layer of a layer list whose range holds the velocity, 0 if none.
LayerOf(layers, velocity) ==
    LET hits == {i \in 1..Len(layers) :
                    /\ velocity >= layers[i].velocityRangeStart
                    /\ velocity <= layers[i].velocityRangeEnd}
    IN IF hits = {} THEN 0 ELSE CHOOSE i \in hits : \A j \in hits : i <= j

\* getVelocityLayerIndex: the 0-based index of the layer, -1 if none.
GetVelocityLayerIndex(m, midiNote, velocity) ==
    IF ~m[midiNote].present THEN -1
    ELSE LET actualNote == ActualNote(m, midiNote)
         IN IF ~m[actualNote].present THEN -1
            ELSE LayerOf(m[actualNote].velocityLayers, velocity) - 1

\* findSample of the RAM engine: the index of the file found, 0 for nullptr.
\* The requested round-robin position if its slot is filled, else the first
\* filled slot of the layer.
FindSampleOfMap(m, midiNote, velocity, roundRobin) ==
    IF ~m[midiNote].present THEN 0
    ELSE LET actualNote == ActualNote(m, midiNote)
         IN IF ~m[actualNote].present THEN 0
            ELSE LET layers == m[actualNote].velocityLayers
                     l == LayerOf(layers, velocity)
                 IN IF l = 0 \/ roundRobin < 1 \/ roundRobin > 3 THEN 0
                    ELSE LET slots == layers[l].roundRobinSamples
                             filled == {rr \in RoundRobins : slots[rr] # 0}
                         IN IF slots[roundRobin] # 0 THEN slots[roundRobin]
                            ELSE IF filled = {} THEN 0
                            ELSE slots[CHOOSE rr \in filled : \A o \in filled : rr <= o]

\* The test findStreamingSample applies to one element of streamingSamples:
\* it is a sample of the note, and the layer whose range holds the velocity
\* has its velocity value.  The round-robin position is compared, but both
\* outcomes of the comparison return the element.
StreamingSampleMatches(m, ss, actualNote, velocity, roundRobin) ==
    /\ ss.midiNote = actualNote
    /\ m[actualNote].present
    /\ \E i \in 1..Len(m[actualNote].velocityLayers) :
           LET layer == m[actualNote].velocityLayers[i]
           IN /\ velocity >= layer.velocityRangeStart
              /\ velocity <= layer.velocityRangeEnd
              /\ layer.velocityValue = ss.velocity
    /\ IF ss.roundRobin = roundRobin THEN TRUE ELSE TRUE

\* findStreamingSample: the index in streamingSamples of the first element
\* that passes the test, 0 for nullptr.
FindStreamingSampleOfMap(samples, m, midiNote, velocity, roundRobin) ==
    LET actualNote == ActualNote(m, midiNote)
        hits == {i \in 1..Len(samples) :
                    StreamingSampleMatches(m, samples[i], actualNote, velocity,
                                           roundRobin)}
    IN IF hits = {} THEN 0 ELSE CHOOSE i \in hits : \A j \in hits : i <= j

\* ---- selective preload (spec 4.4; the engine that has the two limits
\* is not among the sources, only the processor that calls it) ------------
NumChannels == 2

\* totalSampleFrames of a file: the second take is the longer one.
TotalSampleFrames(ss) == IF ss.roundRobin = 1 THEN 5000 ELSE 9000

\* The frames of a file the loader preloads for a preload size in KB.
FramesToPreload(ss, sizeKB) ==
    Min((sizeKB * 1024) \div (NumChannels * BytesPerSample), TotalSampleFrames(ss))

\* The bytes of a preload buffer of the given frames.
PreloadBytes(frames) == frames * NumChannels * BytesPerSample

\* velocity_layer_index of a record: the 0-based position of its layer in
\* the sorted layer list of its note.
VelocityLayerIndexOf(m, ss) ==
    LET layers == m[ss.midiNote].velocityLayers
    IN (CHOOSE i \in 1..Len(layers) : layers[i].velocityValue = ss.velocity) - 1

\* should_preload.
ShouldPreload(m, ss, layerLimit, rrLimit) ==
    /\ VelocityLayerIndexOf(m, ss) < layerLimit
    /\ 1 <= ss.roundRobin
    /\ ss.roundRobin <= rrLimit

NotPreloaded == [preloaded |-> FALSE, frames |-> 0]

ReconcileKeeping(samples, m, old, layerLimit, rrLimit, sizeKB) ==
    [i \in 1..Len(samples) |->
        IF old[i].preloaded THEN old[i]
        ELSE IF ShouldPreload(m, samples[i], layerLimit, rrLimit)
        THEN [preloaded |-> TRUE, frames |-> FramesToPreload(samples[i], sizeKB)]
        ELSE old[i]]

\* reconcile_preload over the records: a wanted record that is not preloaded
\* is read in at the current preload size, an unwanted one that is preloaded
\* is freed, the others are left as they are.
ReconcilePreload(samples, m, old, layerLimit, rrLimit, sizeKB) ==
    [i \in 1..Len(samples) |->
        LET want == ShouldPreload(m, samples[i], layerLimit, rrLimit)
        IN IF want /\ ~old[i].preloaded
           THEN [preloaded |-> TRUE, frames |-> FramesToPreload(samples[i], sizeKB)]
           ELSE IF ~want /\ old[i].preloaded THEN NotPreloaded
           ELSE old[i]]

\* The bytes of the first k preload buffers.
RECURSIVE PreloadBytesUpTo(_, _)
PreloadBytesUpTo(p, k) ==
    IF k = 0 THEN 0
    ELSE PreloadBytesUpTo(p, k - 1)
         + (IF p[k].preloaded THEN PreloadBytes(p[k].frames) ELSE 0)

\* The aggregate after a reconcile: the old aggregate, plus the buffers read
\* in, minus the buffers freed.
UpdatedPreloadMemory(total, old, new) ==
    total + PreloadBytesUpTo(new, Len(new)) - PreloadBytesUpTo(old, Len(old))

\* max_velocity_layers and max_round_robins of a folder, at least 1: the
\* values the two limits take when the folder is loaded.
MaxVelocityLayersGlobal(m) ==
    LET counts == {Len(m[n].velocityLayers) : n \in MidiNotes} \cup {1}
    IN CHOOSE c \in counts : \A d \in counts : d <= c

MaxRoundRobins(files) ==
    LET rrs == {files[i].roundRobin : i \in 1..Len(files)} \cup {1}
    IN CHOOSE c \in rrs : \A d \in rrs : d <= c

NoFind == [op |-> "none", midiNote |-> 0, velocity |-> 0, roundRobin |-> 0,
           result |-> 0]

MapInit ==
    /\ libSamples = <<>>
    /\ libMappings = [n \in MidiNotes |-> NoMapping]
    /\ lastFind = NoFind
    /\ velocityLayerLimit = 1
    /\ roundRobinLimit = 1
    /\ preloadSizeKB = DefaultPreloadSizeKB
    /\ preload = <<>>
    /\ preloadMemoryBytes = 0

\* A finished library load: the samples and the map of the folder are
\* published.
LoadLibrary(files) ==
    /\ libSamples' = files
    /\ libMappings' = BuildMappings(files)
    /\ lastFind' = NoFind
    /\ preload' = [i \in 1..Len(files) |->
                      [preloaded |-> TRUE,
                       frames |-> FramesToPreload(files[i], preloadSizeKB)]]
    /\ preloadMemoryBytes' = PreloadBytesUpTo(preload', Len(files))
    /\ velocityLayerLimit' = MaxVelocityLayersGlobal(libMappings')
    /\ roundRobinLimit' = MaxRoundRobins(files)
    /\ UNCHANGED preloadSizeKB
    /\ UNCHANGED notMapVars

\* A findSample call of the RAM engine.
CallFindSample(midiNote, velocity, roundRobin) ==
    /\ lastFind' = [op |-> "findSample", midiNote |-> midiNote,
                    velocity |-> velocity, roundRobin |-> roundRobin,
                    result |-> FindSampleOfMap(libMappings, midiNote, velocity,
                                               roundRobin)]
    /\ UNCHANGED libVars
    /\ UNCHANGED notMapVars

\* A findStreamingSample call of the streaming engine.
CallFindStreamingSample(midiNote, velocity, roundRobin) ==
    /\ lastFind' = [op |-> "findStreamingSample", midiNote |-> midiNote,
                    velocity |-> velocity, roundRobin |-> roundRobin,
                    result |-> FindStreamingSampleOfMap(libSamples, libMappings,
                                                        midiNote, velocity,
                                                        roundRobin)]
    /\ UNCHANGED libVars
    /\ UNCHANGED notMapVars

\* A getVelocityLayerIndex call of the editor.
CallGetVelocityLayerIndex(midiNote, velocity) ==
    /\ lastFind' = [op |-> "getVelocityLayerIndex", midiNote |-> midiNote,
                    velocity |-> velocity, roundRobin |-> 0,
                    result |-> GetVelocityLayerIndex(libMappings, midiNote,
                                                     velocity)]
    /\ UNCHANGED libVars
    /\ UNCHANGED notMapVars

\* The library of the preload model: two velocity layers of note 1 with two
\* takes each, in two scan orders, and a folder with one file.
PreloadFolders ==
    {<<[midiNote |-> 1, velocity |-> 4, roundRobin |-> 2],
       [midiNote |-> 1, velocity |-> 2, roundRobin |-> 1],
       [midiNote |-> 1, velocity |-> 4, roundRobin |-> 1],
       [midiNote |-> 1, velocity |-> 2, roundRobin |-> 2]>>,
     <<[midiNote |-> 1, velocity |-> 2, roundRobin |-> 1],
       [midiNote |-> 1, velocity |-> 2, roundRobin |-> 2]>>,
     <<[midiNote |-> 1, velocity |-> 2, roundRobin |-> 1]>>}

LimitInputs == {0, 1, 2}
PreloadSizeInputs == {16, 32, 64}
PreloadNotes == {0, 1}

\* What a call of one of the three setters leaves in lastFind.
SetterCall(name, value) ==
    [op |-> name, midiNote |-> 0, velocity |-> 0, roundRobin |-> 0,
     result |-> value]

\* setVelocityLayerLimit: the limit is stored, at least 1, and the preload
\* set is reconciled.
SetVelocityLayerLimit(limit) ==
    /\ velocityLayerLimit' = Max(1, limit)
    /\ preload' = ReconcilePreload(libSamples, libMappings, preload,
                                   velocityLayerLimit', roundRobinLimit,
                                   preloadSizeKB)
    /\ preloadMemoryBytes' = UpdatedPreloadMemory(preloadMemoryBytes, preload, preload')
    /\ lastFind' = SetterCall("setVelocityLayerLimit", limit)
    /\ UNCHANGED <<libSamples, libMappings, roundRobinLimit, preloadSizeKB>>
    /\ UNCHANGED notMapVars

\* setRoundRobinLimit: the limit is stored, at least 1, and the preload set
\* is reconciled.
SetRoundRobinLimit(limit) ==
    /\ roundRobinLimit' = Max(1, limit)
    /\ preload' = ReconcilePreload(libSamples, libMappings, preload,
                                   velocityLayerLimit, roundRobinLimit',
                                   preloadSizeKB)
    /\ preloadMemoryBytes' = UpdatedPreloadMemory(preloadMemoryBytes, preload, preload')
    /\ lastFind' = SetterCall("setRoundRobinLimit", limit)
    /\ UNCHANGED <<libSamples, libMappings, velocityLayerLimit, preloadSizeKB>>
    /\ UNCHANGED notMapVars

\* setPreloadSizeKB of the engine that reconciles: the size is clamped to
\* 32..1024 and the preload set is reconciled.
SetPreloadSizeKB(sizeKB) ==
    /\ preloadSizeKB' = Min(1024, Max(32, sizeKB))
    /\ preload' = ReconcilePreload(libSamples, libMappings, preload,
                                   velocityLayerLimit, roundRobinLimit,
                                   preloadSizeKB')
    /\ preloadMemoryBytes' = UpdatedPreloadMemory(preloadMemoryBytes, preload, preload')
    /\ lastFind' = SetterCall("setPreloadSizeKB", sizeKB)
    /\ UNCHANGED <<libSamples, libMappings, velocityLayerLimit, roundRobinLimit>>
    /\ UNCHANGED notMapVars

\* The lookup of SamplerEngine::noteOn: findStreamingSample when streaming is
\* enabled, findSample otherwise.
NoteOnLookup(streamingEnabled, midiNote, velocity, roundRobin) ==
    IF streamingEnabled
    THEN FindStreamingSampleOfMap(libSamples, libMappings, midiNote, velocity,
                                  roundRobin)
    ELSE FindSampleOfMap(libMappings, midiNote, velocity, roundRobin)

\* The note-on branch of MidiKeyboardProcessor::processBlock: the engine's
\* noteOn with the current round-robin position, then the position advances.
ProcessorNoteOn(streamingEnabled, midiNote, velocity) ==
    /\ lastFind' = [op |-> "noteOn", midiNote |-> midiNote, velocity |-> velocity,
                    roundRobin |-> currentRoundRobin,
                    result |-> NoteOnLookup(streamingEnabled, midiNote, velocity,
                                            currentRoundRobin)]
    /\ currentRoundRobin' = (currentRoundRobin % 3) + 1
    /\ UNCHANGED libVars
    /\ UNCHANGED <<maxVoices, voices, adsrParams, sustainPedalDown, noteSustained,
                   transposeAmount, lastEvent, offCalls, relAge, relBound,
                   offAge, offBound>>
    /\ UNCHANGED <<auxVars, ringVars, loadVars, procVars>>

\* Library loads, the limit and preload-size setters, and note-ons.
PreloadNext ==
    \/ \E files \in PreloadFolders : LoadLibrary(files)
    \/ \E limit \in LimitInputs : SetVelocityLayerLimit(limit)
    \/ \E limit \in LimitInputs : SetRoundRobinLimit(limit)
    \/ \E sizeKB \in PreloadSizeInputs : SetPreloadSizeKB(sizeKB)
    \/ \E streamingEnabled \in BOOLEAN, n \in PreloadNotes, vel \in MidiVelocities :
           ProcessorNoteOn(streamingEnabled, n, vel)

\* Library loads and the editor's layer lookups.
MapNext ==
    \/ \E files \in Folders(MapFiles) : LoadLibrary(files)
    \/ \E n \in MidiNotes, vel \in MidiVelocities :
           CallGetVelocityLayerIndex(n, vel)

\* Library loads and the sample lookups of the two engines.
\* The library of scenario S3 on the model's scale: one note (C4 as note 1)
\* with three velocity layers (40, 80 and 127 as 1, 2 and 4), one take each.
ScenarioFiles == [midiNote : {1}, velocity : {1, 2, 4}, roundRobin : {1}]

\* The folders made of these files, in every scan order.
ScenarioFolders ==
    UNION {[1..n -> ScenarioFiles] : n \in 0..Cardinality(ScenarioFiles)}

ScenarioNext ==
    \/ \E files \in ScenarioFolders : LoadLibrary(files)
    \/ \E n \in MidiNotes, vel \in MidiVelocities :
           CallFindStreamingSample(n, vel, 1)

FindNext ==
    \/ \E files \in Folders(FindFiles) : LoadLibrary(files)
    \/ \E n \in MidiNotes, vel \in MidiVelocities, rr \in RoundRobins :
           CallFindSample(n, vel, rr)
    \/ \E n \in MidiNotes, vel \in MidiVelocities, rr \in RoundRobins :
           CallFindStreamingSample(n, vel, rr)

(***************************************************************************)
(* Part P - load requests, the loader threads they start, the processor's  *)
(* setters and the restoring of a persisted state.                         *)
(***************************************************************************)
RequestIds == 1..MaxRequests

\* The folders a load can be asked for: two sample folders and a path that
\* no longer exists.
NoFolder == [path |-> "", exists |-> FALSE, isDirectory |-> FALSE, notes |-> {}]
RequestFolders ==
    {[path |-> "A", exists |-> TRUE, isDirectory |-> TRUE, notes |-> {60}],
     [path |-> "B", exists |-> TRUE, isDirectory |-> TRUE, notes |-> {62}],
     [path |-> "gone", exists |-> FALSE, isDirectory |-> FALSE, notes |-> {}]}

NoThread == [pc |-> "none", folder |-> NoFolder]
NoCall == [op |-> "none", arg |-> 0]

ClampSemitonesAbove(semitones) == Min(12, semitones)

\* setTranspose and setSampleOffset: jlimit(-12, 12, semitones).
ClampSemitones(semitones) == Min(12, Max(-12, semitones))

\* setPreloadSizeKB: jlimit(32, 1024, sizeKB).
ClampPreloadSizeKB(sizeKB) == Min(1024, Max(32, sizeKB))

ProcInit ==
    /\ requestPc = "idle"
    /\ requestFolder = NoFolder
    /\ requestCount = 0
    /\ loaders = [id \in RequestIds |-> NoThread]
    /\ loadingThread = 0
    /\ loadedFolderPath = ""
    /\ waited = {}
    /\ sampleOffsetAmount = 0
    /\ lastCall = NoCall

\* The loader threads that have started and not finished.
RunningLoaders == {id \in RequestIds : loaders[id].pc \in {"scan", "swap"}}

\* A thread enters SamplerEngine::loadSamplesFromFolder.
LoadSamplesFromFolder(folder) ==
    /\ requestPc = "idle"
    /\ requestCount < MaxRequests
    /\ requestPc' = "join"
    /\ requestFolder' = folder
    /\ requestCount' = requestCount + 1
    /\ waited' = IF RunningLoaders # {} THEN waited \cup {requestCount'} ELSE waited
    /\ lastCall' = [op |-> "loadSamplesFromFolder", arg |-> folder.path]
    /\ UNCHANGED <<loaders, loadingThread, loadedFolderPath, sampleOffsetAmount>>
    /\ UNCHANGED <<loadingState, noteMappings, adsrParams, transposeAmount,
                   preloadSizeKB>>
    /\ UNCHANGED <<auxVars, ringVars, loadRest, engineRest, libRest>>

JoinReturnsAtOnce(thread) == TRUE

\* std::thread::join returns when the thread has finished.
JoinReturns(thread) == thread.pc = "done"

\* if (loadingThread && loadingThread->joinable()) loadingThread->join();
JoinLoadingThread ==
    /\ requestPc = "join"
    /\ loadingThread # 0 => JoinReturns(loaders[loadingThread])
    /\ requestPc' = "start"
    /\ UNCHANGED <<requestFolder, requestCount, loaders, loadingThread,
                   loadedFolderPath, waited, sampleOffsetAmount, lastCall>>
    /\ UNCHANGED <<loadingState, noteMappings, adsrParams, transposeAmount,
                   preloadSizeKB>>
    /\ UNCHANGED <<auxVars, ringVars, loadRest, engineRest, libRest>>

\* The rest of loadSamplesFromFolder: the path is stored; if the folder is a
\* directory the state becomes Loading and a new loader thread starts.
StartLoadingThread ==
    /\ requestPc = "start"
    /\ requestPc' = "idle"
    /\ loadedFolderPath' = requestFolder.path
    /\ IF requestFolder.isDirectory
       THEN /\ loadingState' = "Loading"
            /\ loaders' = [loaders EXCEPT ![requestCount] =
                              [pc |-> "scan", folder |-> requestFolder]]
            /\ loadingThread' = requestCount
       ELSE UNCHANGED <<loadingState, loaders, loadingThread>>
    /\ UNCHANGED <<requestFolder, requestCount, waited, sampleOffsetAmount,
                   lastCall>>
    /\ UNCHANGED <<noteMappings, adsrParams, transposeAmount, preloadSizeKB>>
    /\ UNCHANGED <<auxVars, ringVars, loadRest, engineRest, libRest>>

\* loadSamplesInBackground of one loader thread: the files are read and the
\* map is built.
LoaderBuild(id) ==
    /\ loaders[id].pc = "scan"
    /\ loaders' = [loaders EXCEPT ![id].pc = "swap"]
    /\ UNCHANGED <<requestPc, requestFolder, requestCount, loadingThread,
                   loadedFolderPath, waited, sampleOffsetAmount, lastCall>>
    /\ UNCHANGED <<loadingState, noteMappings, adsrParams, transposeAmount,
                   preloadSizeKB>>
    /\ UNCHANGED <<auxVars, ringVars, loadRest, engineRest, libRest>>

\* The end of loadSamplesInBackground: the map is swapped in and the state
\* becomes Loaded.
LoaderPublish(id) ==
    /\ loaders[id].pc = "swap"
    /\ loaders' = [loaders EXCEPT ![id].pc = "done"]
    /\ noteMappings' = loaders[id].folder.notes
    /\ loadingState' = "Loaded"
    /\ UNCHANGED <<requestPc, requestFolder, requestCount, loadingThread,
                   loadedFolderPath, waited, sampleOffsetAmount, lastCall>>
    /\ UNCHANGED <<adsrParams, transposeAmount, preloadSizeKB>>
    /\ UNCHANGED <<auxVars, ringVars, loadRest, engineRest, libRest>>

\* Load requests and the loader threads.
JoinNext ==
    \/ \E folder \in RequestFolders : LoadSamplesFromFolder(folder)
    \/ JoinLoadingThread
    \/ StartLoadingThread
    \/ \E id \in RequestIds : LoaderBuild(id)
    \/ \E id \in RequestIds : LoaderPublish(id)

\* The persisted states of the model: what getStateInformation wrote for
\* folder A, the same after folder A was deleted, a hand-edited state with
\* values out of range and a missing folder, and a state with no folder.
PersistedStates ==
    {[adsr |-> <<2, 2, 24, 4>>, preloadSizeKB |-> 128, transpose |-> 5,
      sampleOffset |-> -3,
      sampleFolder |-> [path |-> "A", exists |-> TRUE, isDirectory |-> TRUE,
                        notes |-> {60}]],
     [adsr |-> <<2, 2, 24, 4>>, preloadSizeKB |-> 128, transpose |-> 5,
      sampleOffset |-> -3,
      sampleFolder |-> [path |-> "A", exists |-> FALSE, isDirectory |-> FALSE,
                        notes |-> {}]],
     [adsr |-> <<0, 3, 50, 0>>, preloadSizeKB |-> 2048, transpose |-> 13,
      sampleOffset |-> -13,
      sampleFolder |-> [path |-> "gone", exists |-> FALSE, isDirectory |-> FALSE,
                        notes |-> {}]],
     [adsr |-> <<5, 1, 0, 1>>, preloadSizeKB |-> 16, transpose |-> -12,
      sampleOffset |-> 12, sampleFolder |-> NoFolder]}

SemitoneInputs == {-13, -12, 0, 12, 13}
SizeInputs == {16, 32, 64, 1024, 2048}
ProcessorADSRInputs == {<<2, 2, 24, 4>>, <<0, 0, -1, 0>>, <<1, 1, 49, 1>>}

FolderUsableAlways(folder) == TRUE

\* The test of setStateInformation before it loads the saved folder.
FolderUsable(folder) == folder.exists /\ folder.isDirectory

\* MidiKeyboardProcessor::setStateInformation: the four settings are passed
\* to their setters; the saved folder is loaded if its path is not empty and
\* it is an existing directory.
SetStateInformation(st) ==
    /\ requestPc = "idle"
    /\ adsrParams' = ClampADSR(st.adsr)
    /\ preloadSizeKB' = ClampPreloadSizeKB(st.preloadSizeKB)
    /\ transposeAmount' = ClampSemitones(st.transpose)
    /\ sampleOffsetAmount' = ClampSemitones(st.sampleOffset)
    /\ lastCall' = [op |-> "setStateInformation", arg |-> st,
                    again |-> (lastCall.op = "setStateInformation"
                               /\ lastCall.arg = st)]
    /\ IF st.sampleFolder.path # "" /\ FolderUsable(st.sampleFolder)
       THEN /\ requestCount < MaxRequests
            /\ requestPc' = "join"
            /\ requestFolder' = st.sampleFolder
            /\ requestCount' = requestCount + 1
            /\ waited' = IF RunningLoaders # {}
                         THEN waited \cup {requestCount'} ELSE waited
       ELSE UNCHANGED <<requestPc, requestFolder, requestCount, waited>>
    /\ UNCHANGED <<loaders, loadingThread, loadedFolderPath>>
    /\ UNCHANGED <<loadingState, noteMappings>>
    /\ UNCHANGED <<auxVars, ringVars, loadRest, engineRest, libRest>>

\* MidiKeyboardProcessor::setADSR.
ProcessorSetADSR(in) ==
    /\ adsrParams' = ClampADSR(in)
    /\ lastCall' = [op |-> "setADSR", arg |-> in]
    /\ UNCHANGED <<requestPc, requestFolder, requestCount, loaders, loadingThread,
                   loadedFolderPath, waited, sampleOffsetAmount>>
    /\ UNCHANGED <<loadingState, noteMappings, transposeAmount, preloadSizeKB>>
    /\ UNCHANGED <<auxVars, ringVars, loadRest, engineRest, libRest>>

\* MidiKeyboardProcessor::setPreloadSizeKB.
ProcessorSetPreloadSizeKB(sizeKB) ==
    /\ preloadSizeKB' = ClampPreloadSizeKB(sizeKB)
    /\ lastCall' = [op |-> "setPreloadSizeKB", arg |-> sizeKB]
    /\ UNCHANGED <<requestPc, requestFolder, requestCount, loaders, loadingThread,
                   loadedFolderPath, waited, sampleOffsetAmount>>
    /\ UNCHANGED <<loadingState, noteMappings, adsrParams, transposeAmount>>
    /\ UNCHANGED <<auxVars, ringVars, loadRest, engineRest, libRest>>

\* MidiKeyboardProcessor::setTranspose.
SetTranspose(semitones) ==
    /\ transposeAmount' = ClampSemitones(semitones)
    /\ lastCall' = [op |-> "setTranspose", arg |-> semitones]
    /\ UNCHANGED <<requestPc, requestFolder, requestCount, loaders, loadingThread,
                   loadedFolderPath, waited, sampleOffsetAmount>>
    /\ UNCHANGED <<loadingState, noteMappings, adsrParams, preloadSizeKB>>
    /\ UNCHANGED <<auxVars, ringVars, loadRest, engineRest, libRest>>

\* MidiKeyboardProcessor::setSampleOffset.
SetSampleOffset(semitones) ==
    /\ sampleOffsetAmount' = ClampSemitones(semitones)
    /\ lastCall' = [op |-> "setSampleOffset", arg |-> semitones]
    /\ UNCHANGED <<requestPc, requestFolder, requestCount, loaders, loadingThread,
                   loadedFolderPath, waited>>
    /\ UNCHANGED <<loadingState, noteMappings, adsrParams, transposeAmount,
                   preloadSizeKB>>
    /\ UNCHANGED <<auxVars, ringVars, loadRest, engineRest, libRest>>

\* The host restores persisted states while loads run.
RestoreNext ==
    \/ \E st \in PersistedStates : SetStateInformation(st)
    \/ JoinLoadingThread
    \/ StartLoadingThread
    \/ \E id \in RequestIds : LoaderBuild(id)
    \/ \E id \in RequestIds : LoaderPublish(id)

\* The editor's calls of the setters.
SetterNext ==
    \/ \E in \in ProcessorADSRInputs : ProcessorSetADSR(in)
    \/ \E sizeKB \in SizeInputs : ProcessorSetPreloadSizeKB(sizeKB)
    \/ \E semitones \in SemitoneInputs : SetTranspose(semitones)
    \/ \E semitones \in SemitoneInputs : SetSampleOffset(semitones)

(***************************************************************************)
(* Part N.  File-name parsing: SamplerEngine::parseNoteName and            *)
(* parseFileName (Source/SamplerEngine.cpp).  A text is a sequence of      *)
(* one-character strings.  The juce::String calls are modelled by what     *)
(* they do: toUpperCase, containsOnly, getIntValue (an optional '-' and    *)
(* the leading digits), upToLastOccurrenceOf and StringArray::addTokens    *)
(* (empty tokens are kept, an empty text has no token).                    *)
(***************************************************************************)
Digits == {"0", "1", "2", "3", "4", "5", "6", "7", "8", "9"}

IsDigit(c) == c \in Digits

DigitValue(c) ==
    CASE c = "0" -> 0 [] c = "1" -> 1 [] c = "2" -> 2 [] c = "3" -> 3
      [] c = "4" -> 4 [] c = "5" -> 5 [] c = "6" -> 6 [] c = "7" -> 7
      [] c = "8" -> 8 [] c = "9" -> 9 [] OTHER -> 0

\* juce::String::toUpperCase on one character.
ToUpperChar(c) ==
    CASE c = "a" -> "A" [] c = "b" -> "B" [] c = "c" -> "C" [] c = "d" -> "D"
      [] c = "e" -> "E" [] c = "f" -> "F" [] c = "g" -> "G" [] c = "x" -> "X"
      [] OTHER -> c

ToUpperCase(text) == [i \in 1..Len(text) |-> ToUpperChar(text[i])]

\* juce::String::containsOnly.
ContainsOnly(text, chars) == \A i \in 1..Len(text) : text[i] \in chars

\* The value of the leading digits of a text.
RECURSIVE LeadingDigitsValue(_, _)
LeadingDigitsValue(text, acc) ==
    IF text = <<>> \/ ~IsDigit(Head(text)) THEN acc
    ELSE LeadingDigitsValue(Tail(text), acc * 10 + DigitValue(Head(text)))

\* juce::String::getIntValue: an optional minus sign, then the leading
\* digits; parsing stops at the first other character.
GetIntValue(text) ==
    IF text # <<>> /\ Head(text) = "-"
    THEN 0 - LeadingDigitsValue(Tail(text), 0)
    ELSE LeadingDigitsValue(text, 0)

\* juce::String::substring(index), index counted from 0.
Substring(text, index) == SubSeq(text, index + 1, Len(text))

\* juce::String::upToLastOccurrenceOf(".", false, false): the whole text
\* when it has no dot.
UpToLastOccurrenceOf(text, c) ==
    LET at == {i \in 1..Len(text) : text[i] = c}
    IN IF at = {} THEN text
       ELSE SubSeq(text, 1, (CHOOSE i \in at : \A j \in at : j <= i) - 1)

\* StringArray::addTokens(text, "_", ""): the pieces between the break
\* characters.
RECURSIVE TokensFrom(_, _, _)
TokensFrom(text, c, token) ==
    IF text = <<>> THEN <<token>>
    ELSE IF Head(text) = c THEN <<token>> \o TokensFrom(Tail(text), c, <<>>)
    ELSE TokensFrom(Tail(text), c, Append(token, Head(text)))

AddTokens(text, c) == IF text = <<>> THEN <<>> ELSE TokensFrom(text, c, <<>>)

\* parseNoteName's switch on the upper-cased first letter.
NoteBase(letter) ==
    CASE letter = "C" -> 0 [] letter = "D" -> 2 [] letter = "E" -> 4
      [] letter = "F" -> 5 [] letter = "G" -> 7 [] letter = "A" -> 9
      [] letter = "B" -> 11 [] OTHER -> -1

\* The characters parseNoteName lets through in the octave text.
OctaveChars == Digits \cup {"-"}

\* SamplerEngine::parseNoteName: the MIDI note, or -1.
ParseNoteName(noteName) ==
    IF noteName = <<>> THEN -1
    ELSE
    LET upper == ToUpperCase(noteName)
        letterBase == NoteBase(upper[1])
        sharp == 1 < Len(upper) /\ upper[2] = "#"
        flat == /\ ~sharp
                /\ 2 < Len(upper)
                /\ upper[2] = "B"
                /\ IsDigit(upper[3])
        noteBase == IF sharp THEN letterBase + 1
                    ELSE IF flat THEN letterBase - 1 ELSE letterBase
        index == IF sharp \/ flat THEN 2 ELSE 1
        octaveStr == Substring(noteName, index)
        midiNote == (GetIntValue(octaveStr) + 1) * 12 + noteBase
    IN IF letterBase < 0 THEN -1
       ELSE IF octaveStr = <<>> \/ ~ContainsOnly(octaveStr, OctaveChars) THEN -1
       ELSE IF midiNote < 0 \/ midiNote > 127 THEN -1
       ELSE midiNote

\* parseFileName: if (roundRobin < 1 || roundRobin > 3) return false.
RoundRobinAccepted(roundRobin) == ~(roundRobin < 1 \/ roundRobin > 3)

\* parseFileName: if (velocity < 1 || velocity > 127) return false.
VelocityAccepted(velocity) == ~(velocity < 1 \/ velocity > 127)

\* SamplerEngine::parseFileName: the value returned and the three outputs;
\* an output the call has not written is 0.
ParseFileName(fileName) ==
    LET baseName == UpToLastOccurrenceOf(fileName, ".")
        parts == AddTokens(baseName, "_")
        failed == [ok |-> FALSE, note |-> 0, velocity |-> 0, roundRobin |-> 0]
    IN IF Len(parts) < 3 THEN failed
       ELSE
       LET note == ParseNoteName(parts[1])
           velStr == parts[2]
           velocity == GetIntValue(velStr)
           rrStr == parts[3]
           roundRobin == GetIntValue(rrStr)
       IN IF note < 0 THEN [failed EXCEPT !.note = note]
          ELSE IF Len(velStr) < 1 \/ ~ContainsOnly(velStr, Digits)
               THEN [failed EXCEPT !.note = note]
          ELSE IF ~VelocityAccepted(velocity)
               THEN [failed EXCEPT !.note = note, !.velocity = velocity]
          ELSE IF Len(rrStr) < 1 \/ ~ContainsOnly(rrStr, Digits)
               THEN [failed EXCEPT !.note = note, !.velocity = velocity]
          ELSE IF ~RoundRobinAccepted(roundRobin)
               THEN [ok |-> FALSE, note |-> note, velocity |-> velocity,
                     roundRobin |-> roundRobin]
          ELSE [ok |-> TRUE, note |-> note, velocity |-> velocity,
                roundRobin |-> roundRobin]

\* The characters of the note names tried, and the names of the tests.
NameChars == {"C", "c", "G", "B", "b", "X", "#", "-", "1", "2", "4", "9"}

TestNoteNames ==
    {<<"D", "4">>, <<"E", "4">>, <<"F", "4">>, <<"A", "4">>, <<"A", "0">>,
     <<"D", "b", "4">>, <<"E", "b", "4">>, <<"A", "#", "4">>, <<"d", "b", "4">>,
     <<"G", "#", "6">>, <<"C", "8">>, <<"A", "9">>, <<"4">>}

NoteNames == UNION {[1..n -> NameChars] : n \in 0..MaxNameLen} \cup TestNoteNames

\* The tokens of the file names tried.
NoteTokens ==
    {<<"C", "4">>, <<"G", "#", "6">>, <<"D", "b", "3">>, <<"A", "0">>,
     <<"C", "-", "1">>, <<"G", "#", "9">>, <<"X", "4">>, <<"C", "-">>, <<>>}

VelocityTokens ==
    {<<"0", "0", "1">>, <<"0", "4", "0">>, <<"1", "2", "7">>, <<"0", "0", "0">>,
     <<"1", "2", "8">>, <<"2", "5", "6">>, <<"a", "b", "c">>, <<"1", "x">>, <<>>}

RoundRobinTokens ==
    {<<"0", "1">>, <<"0", "3">>, <<"0", "4">>, <<"9", "9">>, <<"0", "0">>,
     <<"a", "b">>, <<>>}

SuffixTokens == {<<"p", "i", "a", "n", "o">>, <<"v", "2">>}

Extensions == {<<".", "w", "a", "v">>, <<".", "a", "i", "f", "f">>}

\* The tokens joined with underscores.
RECURSIVE JoinTokens(_)
JoinTokens(tokens) ==
    IF tokens = <<>> THEN <<>>
    ELSE IF Len(tokens) = 1 THEN tokens[1]
    ELSE tokens[1] \o <<"_">> \o JoinTokens(Tail(tokens))

\* Token lists of one to three tokens, and of three tokens with suffixes.
TokenLists ==
    LET three == {<<n, v, r>> : n \in NoteTokens, v \in VelocityTokens,
                                r \in RoundRobinTokens}
    IN {<<n>> : n \in NoteTokens}
       \cup {<<n, v>> : n \in NoteTokens, v \in VelocityTokens}
       \cup three
       \cup {t \o s : t \in three,
                      s \in UNION {[1..k -> SuffixTokens] : k \in 1..MaxSuffixes}}

FileNames == {JoinTokens(t) \o e : t \in TokenLists, e \in Extensions}

NoParse == [op |-> "none", ok |-> FALSE, note |-> 0, velocity |-> 0,
            roundRobin |-> 0]

\* A call of parseNoteName on the text.
CallParseNoteName ==
    /\ lastParse.op = "none"
    /\ lastParse' = [op |-> "parseNoteName",
                     ok |-> ParseNoteName(parseText) >= 0,
                     note |-> ParseNoteName(parseText),
                     velocity |-> 0, roundRobin |-> 0]
    /\ UNCHANGED <<parseText, streamVoice, streamSched, streamer>>
    /\ UNCHANGED notAuxVars

\* A call of parseFileName on the text.
CallParseFileName ==
    LET r == ParseFileName(parseText)
    IN /\ lastParse.op = "none"
       /\ lastParse' = [op |-> "parseFileName", ok |-> r.ok, note |-> r.note,
                        velocity |-> r.velocity, roundRobin |-> r.roundRobin]
       /\ UNCHANGED <<parseText, streamVoice, streamSched, streamer>>
       /\ UNCHANGED notAuxVars

NoteNameNext == CallParseNoteName

FileNameNext == CallParseFileName

(***************************************************************************)
(* Part W.  A streaming voice between the audio callback and the disk      *)
(* thread's tick (spec 4.2, 4.5, 4.6; the voice and the streamer are       *)
(* declared in headers that are not part of the sources).  Frame counts    *)
(* are in units of 1024 frames: the ring holds 32, the low watermark is 8, *)
(* a chunk is 4, and a 32 KB or 64 KB stereo preload is 4 or 8.            *)
(***************************************************************************)
RingFrames == 32
LowWatermark == 8
ChunkFrames == 4
AudioBlock == 2                      \* a host block of 2048 frames
PreloadFrameChoices == {4, 8}
StreamTotals == {6, 13, 20}          \* frames of the files played

NoStart == [preload |-> 0, total |-> 0]
StreamStarts ==
    {NoStart} \cup [preload : PreloadFrameChoices, total : StreamTotals]

IdleStream == [active |-> FALSE, position |-> 0, preloadEnd |-> 0,
               total |-> 0, fetched |-> 0, ringRead |-> 0, atEnd |-> FALSE]

\* available_to_read(): frames written by the disk thread and not yet read.
StreamAvailable(v) == (v.fetched - v.preloadEnd) - v.ringRead

\* available_to_write().
StreamFree(v) == RingFrames - StreamAvailable(v)

\* needs_data(): available_to_read() < LOW_WATERMARK && !at_end_of_stream.
NeedsData(v) == StreamAvailable(v) < LowWatermark /\ ~v.atEnd

\* Note-on: the voice plays the preload first; its ring is empty and its
\* stream starts at the frame where the preload ends.
StreamStart(start) ==
    LET preloadEnd == Min(start.preload, start.total)
    IN [active |-> TRUE, position |-> 0, preloadEnd |-> preloadEnd,
        total |-> start.total, fetched |-> preloadEnd, ringRead |-> 0,
        atEnd |-> FALSE]

\* The voice renders a block that consumes c source frames: from the preload
\* while position < preloadEnd, then from the ring by read(); it retires at
\* the end of the source.
StreamRender(v, c) ==
    LET wanted == Min(v.position + c, v.total)
        fromRing == Max(0, wanted - Max(v.position, v.preloadEnd))
        got == Min(fromRing, StreamAvailable(v))
        position == wanted - (fromRing - got)
    IN IF ~v.active THEN v
       ELSE [v EXCEPT !.position = position,
                      !.ringRead = @ + got,
                      !.active = position < v.total]

StreamFillOneFrame(v) ==
    LET n == Min(1, Min(v.total - v.fetched, RingFrames - StreamAvailable(v)))
    IN IF v.active /\ StreamAvailable(v) < LowWatermark /\ ~v.atEnd
       THEN [v EXCEPT !.fetched = @ + n, !.atEnd = (v.fetched + n >= v.total)]
       ELSE v

StreamFillWholeChunk(v) ==
    IF v.active /\ NeedsData(v)
    THEN [v EXCEPT !.fetched = @ + ChunkFrames,
                   !.atEnd = (v.fetched + ChunkFrames >= v.total)]
    ELSE v

\* One tick of the disk thread on the voice: a candidate gets up to one
\* chunk, as far as the file and the free space go.
StreamFill(v) ==
    LET n == Min(ChunkFrames, Min(v.total - v.fetched, StreamFree(v)))
    IN IF v.active /\ NeedsData(v)
       THEN [v EXCEPT !.fetched = @ + n, !.atEnd = (v.fetched + n >= v.total)]
       ELSE v

StreamInit ==
    /\ streamVoice = IdleStream
    /\ streamSched = [ticks |-> 1, seen |-> -1, fresh |-> FALSE,
                      starved |-> FALSE]

\* The disk thread's tick.
DiskTick ==
    /\ streamVoice' = StreamFill(streamVoice)
    /\ streamSched' = [streamSched EXCEPT !.ticks = Min(@ + 1, MaxTicks)]
    /\ UNCHANGED <<parseText, lastParse, streamer>>
    /\ UNCHANGED notAuxVars

\* One audio callback: the note-on of the block, if any, then the render of
\* c source frames.  seen is available_to_read() of the voice that was active
\* when the callback began, fresh tells that the callback started the voice.
AudioCallback(c, start) ==
    LET begun == IF start = NoStart THEN streamVoice ELSE StreamStart(start)
    IN /\ streamVoice' = StreamRender(begun, c)
       /\ streamSched' =
              [ticks |-> 0,
               seen |-> IF streamVoice.active
                        THEN StreamAvailable(streamVoice) ELSE -1,
               fresh |-> start # NoStart,
               starved |-> streamSched.starved \/ streamSched.ticks = 0]
       /\ UNCHANGED <<parseText, lastParse, streamer>>
       /\ UNCHANGED notAuxVars

WatermarkNext ==
    \/ DiskTick
    \/ \E c \in 1..AudioBlock, start \in StreamStarts : AudioCallback(c, start)

(***************************************************************************)
(* Part D.  The DiskStreamer's tick over several streaming voices (not     *)
(* among the sources; this part follows spec section 4.6): a tick takes a  *)
(* snapshot of the voices, queues the candidates by urgency and serves     *)
(* them one after the other while the audio thread goes on.                *)
(***************************************************************************)
StreamerSlots == {1, 2}
StreamerStarts == [preload : {4}, total : {6, 13}]

NoStep == [op |-> "none", slot |-> 0, from |-> 0, n |-> 0]

\* A streamer as constructed: no voice is registered with it.
StreamerInit ==
    streamer = [voices |-> <<>>, delivered |-> <<>>, queue |-> <<>>,
                last |-> NoStep, startOrder |-> <<>>]

\* The streamer once the engine has registered its voices, all of them idle.
StreamerRegistered ==
    streamer = [voices |-> [s \in StreamerSlots |-> IdleStream],
                delivered |-> [s \in StreamerSlots |-> 0],
                queue |-> <<>>,
                last |-> NoStep,
                startOrder |-> <<>>]

\* Step 2 of a tick: the candidates, active && needs_data().
Candidates(vs) == {s \in StreamerSlots : vs[s].active /\ NeedsData(vs[s])}

RECURSIVE ByUrgency(_, _)
\* Step 3 of a tick: the candidates sorted by urgency, the smallest
\* available_to_read() first, each with the value the snapshot saw.
ByUrgency(vs, slots) ==
    IF slots = {} THEN <<>>
    ELSE LET s == CHOOSE c \in slots :
                      \A d \in slots :
                          \/ StreamAvailable(vs[c]) < StreamAvailable(vs[d])
                          \/ (StreamAvailable(vs[c]) = StreamAvailable(vs[d])
                              /\ c <= d)
         IN <<[slot |-> s, available |-> StreamAvailable(vs[s])]>>
            \o ByUrgency(vs, slots \ {s})

\* Step 4 of a tick: the frames a read delivers to a voice, up to one chunk,
\* as far as the file and the ring's free space go.
ChunkLength(v) ==
    IF v.active /\ NeedsData(v)
    THEN Min(ChunkFrames, Min(v.total - v.fetched, StreamFree(v)))
    ELSE 0

\* The streamer begins a tick: snapshot, candidates, urgency order.
TickBegin ==
    /\ streamer.queue = <<>>
    /\ Candidates(streamer.voices) # {}
    /\ streamer' = [streamer EXCEPT
                       !.queue = ByUrgency(streamer.voices,
                                           Candidates(streamer.voices)),
                       !.last = [op |-> "tick", slot |-> 0, from |-> 0,
                                 n |-> 0]]
    /\ UNCHANGED <<parseText, lastParse, streamVoice, streamSched>>
    /\ UNCHANGED notAuxVars

\* The streamer serves the first candidate of its queue: the read starts at
\* the voice's next source frame to fetch.
ServeCandidate ==
    /\ streamer.queue # <<>>
    /\ LET s == Head(streamer.queue).slot
           v == streamer.voices[s]
       IN streamer' = [streamer EXCEPT
                          !.voices[s] = StreamFill(v),
                          !.delivered[s] = @ + ChunkLength(v),
                          !.queue = Tail(streamer.queue),
                          !.last = [op |-> IF v.active /\ NeedsData(v)
                                           THEN "serve" ELSE "skip",
                                    slot |-> s, from |-> v.fetched,
                                    n |-> ChunkLength(v)]]
    /\ UNCHANGED <<parseText, lastParse, streamVoice, streamSched>>
    /\ UNCHANGED notAuxVars

\* One audio callback: a note-on that starts a voice in slot s, then the
\* render of c source frames by every active voice.
StreamerCallback(c, s, start) ==
    /\ streamer' = [streamer EXCEPT
                       !.voices = [t \in StreamerSlots |->
                                      StreamRender(IF t = s THEN StreamStart(start)
                                                   ELSE streamer.voices[t], c)],
                       !.delivered[s] = 0,
                       !.last = [op |-> "noteOn", slot |-> s, from |-> 0,
                                 n |-> 0]]
    /\ UNCHANGED <<parseText, lastParse, streamVoice, streamSched>>
    /\ UNCHANGED notAuxVars

\* One audio callback without a note-on.
StreamerRender(c) ==
    /\ \E s \in StreamerSlots : streamer.voices[s].active
    /\ streamer' = [streamer EXCEPT
                       !.voices = [t \in StreamerSlots |->
                                      StreamRender(streamer.voices[t], c)],
                       !.last = [op |-> "render", slot |-> 0, from |-> 0,
                                 n |-> 0]]
    /\ UNCHANGED <<parseText, lastParse, streamVoice, streamSched>>
    /\ UNCHANGED notAuxVars

\* The audio thread stops the voice of slot s at once (stopVoice(false), as
\* when the slot is stolen or a library is loaded).
StreamerStop(s) ==
    /\ streamer.voices[s].active
    /\ streamer' = [streamer EXCEPT
                       !.voices[s].active = FALSE,
                       !.last = [op |-> "stop", slot |-> s, from |-> 0,
                                 n |-> 0]]
    /\ UNCHANGED <<parseText, lastParse, streamVoice, streamSched>>
    /\ UNCHANGED notAuxVars

StreamerNext ==
    \/ TickBegin
    \/ ServeCandidate
    \/ \E s \in StreamerSlots, start \in StreamerStarts :
           StreamerCallback(AudioBlock, s, start)
    \/ StreamerRender(AudioBlock)
    \/ \E s \in StreamerSlots : StreamerStop(s)

\* The disk thread is scheduled again and again: a tick that can begin
\* begins, and a queued candidate is served.
StreamerFairness == WF_vars(TickBegin) /\ WF_vars(ServeCandidate)

AuxInit ==
    /\ parseText = <<>>
    /\ lastParse = NoParse
    /\ StreamInit
    /\ StreamerInit

(***************************************************************************)
(* Part O.  Transpose and sample offset on the path of a note: the         *)
(* processor's processBlock (Source/PluginProcessor.cpp) in front of the   *)
(* newer engine's four-argument noteOn (unnamed/part_004).                 *)
(***************************************************************************)
OffsetKeys == {60, 127}                      \* note numbers the host sends
OffsetVelocities == {100}
TransposeSemitones == {12}                   \* values of the transpose knob
OffsetSemitones == {-12, 1}                  \* values of the sample-offset knob
OffsetFolders == {{60, 127}}                 \* libraries: notes with a file

SampleNoteUnshifted(midiNote, sampleOffset) == midiNote

\* noteOn: int sampleNote = jlimit(0, 127, midiNote + sampleOffset).
SampleNote(midiNote, sampleOffset) == Min(127, Max(0, midiNote + sampleOffset))

\* noteOn on the voice array: the sample is looked up at sampleNote, the
\* voices already on midiNote get a quick fade-out, and the voice is started
\* on midiNote.
NoteOnVoices(svs, midiNote, sampleOffset) ==
    LET found == FindStreamingSample(streamingSamples, noteMappings,
                                     SampleNote(midiNote, sampleOffset))
        faded == [v \in VoiceSlots |->
                     IF svs[v].active /\ svs[v].note = midiNote
                     THEN StartQuickFadeOut(svs[v]) ELSE svs[v]]
    IN IF found < 0 THEN svs
       ELSE [faded EXCEPT ![SlotForNoteOn(faded)] =
                StartVoice(midiNote, streamingSamples.gen)]

\* noteOff on the voice array: stopVoice(true) on every voice of the note.
NoteOffVoices(svs, notes) ==
    [v \in VoiceSlots |->
        IF svs[v].active /\ svs[v].note \in notes
        THEN StopVoice(svs[v], TRUE) ELSE svs[v]]

\* processBlock, a note-on message, with the engine's noteOn.
OffsetNoteOn(key, velocity) ==
    LET midiNote == MidiNote(key, transposeAmount)
        sampleNote == SampleNote(midiNote, sampleOffsetAmount)
        found == FindStreamingSample(streamingSamples, noteMappings, sampleNote)
    IN /\ audioPc = "idle"
       /\ noteSustained' = noteSustained \ {midiNote}
       /\ streamingVoices' = NoteOnVoices(streamingVoices, midiNote,
                                          sampleOffsetAmount)
       /\ currentRoundRobin' = (currentRoundRobin % 3) + 1
       /\ lastFind' = [op |-> "noteOn", midiNote |-> sampleNote,
                       velocity |-> velocity, roundRobin |-> currentRoundRobin,
                       result |-> found]
       /\ lastEvent' = [type |-> "noteOn", note |-> midiNote,
                        value |-> velocity, found |-> found >= 0]
       /\ UNCHANGED <<mappingsMutex, loadingState, loaderPc, loaderIdx,
                      loaderFolder, tempSamples, streamingSamples, noteMappings,
                      registered, audioPc, audioNote, audioLogLines,
                      loadsStarted>>
       /\ UNCHANGED <<maxVoices, voices, adsrParams, sustainPedalDown,
                      transposeAmount, offCalls, relAge, relBound, offAge,
                      offBound>>
       /\ UNCHANGED <<auxVars, ringVars, libVars, procVars>>

\* processBlock, a note-off message, with the engine's noteOff.
OffsetNoteOff(key) ==
    LET midiNote == MidiNote(key, transposeAmount)
    IN /\ audioPc = "idle"
       /\ IF sustainPedalDown
          THEN /\ noteSustained' = noteSustained \cup {midiNote}
               /\ UNCHANGED streamingVoices
          ELSE /\ streamingVoices' = NoteOffVoices(streamingVoices, {midiNote})
               /\ UNCHANGED noteSustained
       /\ lastEvent' = [type |-> "noteOff", note |-> midiNote, value |-> 0,
                        found |-> FALSE]
       /\ UNCHANGED <<mappingsMutex, loadingState, loaderPc, loaderIdx,
                      loaderFolder, tempSamples, streamingSamples, noteMappings,
                      registered, audioPc, audioNote, audioLogLines,
                      loadsStarted>>
       /\ UNCHANGED <<maxVoices, voices, adsrParams, sustainPedalDown,
                      currentRoundRobin, transposeAmount, offCalls, relAge,
                      relBound, offAge, offBound>>
       /\ UNCHANGED <<auxVars, ringVars, mapVars, procVars>>

\* The streaming loader's publication of a library, in one step.
OffsetLoad(folder) ==
    /\ loadsStarted < MaxLoads
    /\ loaderPc \in {"none", "done"}
    /\ mappingsMutex = "none"
    /\ streamingVoices' = [v \in VoiceSlots |-> StopVoice(streamingVoices[v], FALSE)]
    /\ streamingSamples' = [gen |-> streamingSamples.gen + 1, notes |-> folder]
    /\ noteMappings' = folder
    /\ loadingState' = "Loaded"
    /\ loadsStarted' = loadsStarted + 1
    /\ UNCHANGED <<mappingsMutex, loaderPc, loaderIdx, loaderFolder, tempSamples,
                   registered, audioPc, audioNote, audioLogLines>>
    /\ UNCHANGED notLoadVars

\* Notes played under the two knobs, and library loads.
OffsetNext ==
    \/ \E f \in OffsetFolders : OffsetLoad(f)
    \/ \E k \in OffsetKeys, vel \in OffsetVelocities : OffsetNoteOn(k, vel)
    \/ \E k \in OffsetKeys : OffsetNoteOff(k)
    \/ \E semitones \in TransposeSemitones : SetTranspose(semitones)
    \/ \E semitones \in OffsetSemitones : SetSampleOffset(semitones)

(***************************************************************************)
(* Part S.  Voice allocation and stealing in the streaming engine's noteOn *)
(* (unnamed/part_004, Source/SamplerEngine.cpp noteOnStreaming), with the  *)
(* order in which the slots were started kept beside the voices.           *)
(***************************************************************************)
StealNotes == {60, 61}                       \* notes of the note-ons

\* The slot list with slot moved to the end: slot is the most recently
\* started one.
StartedLast(order, slot) ==
    Append(SelectSeq(order, LAMBDA s : s # slot), slot)

\* The slot noteOn starts its voice in: the quick fade-out of the voices on
\* the note leaves them active, then the first inactive slot, else slot one.
NoteOnSlot(svs, midiNote) ==
    SlotForNoteOn([v \in VoiceSlots |->
                      IF svs[v].active /\ svs[v].note = midiNote
                      THEN StartQuickFadeOut(svs[v]) ELSE svs[v]])

\* noteOn(midiNote, velocity, roundRobin, 0).
StealNoteOn(midiNote) ==
    LET found == FindStreamingSample(streamingSamples, noteMappings,
                                     SampleNote(midiNote, 0))
    IN /\ audioPc = "idle"
       /\ streamingVoices' = NoteOnVoices(streamingVoices, midiNote, 0)
       /\ streamer' = [streamer EXCEPT !.startOrder =
                         IF found < 0 THEN @
                         ELSE StartedLast(@, NoteOnSlot(streamingVoices, midiNote))]
       /\ UNCHANGED <<mappingsMutex, loadingState, loaderPc, loaderIdx,
                      loaderFolder, tempSamples, streamingSamples, noteMappings,
                      registered, audioPc, audioNote, audioLogLines,
                      loadsStarted>>
       /\ UNCHANGED <<parseText, lastParse, streamVoice, streamSched>>
       /\ UNCHANGED <<ringVars, engineVars, mapVars, procVars>>

\* noteOff(midiNote).
StealNoteOff(midiNote) ==
    /\ audioPc = "idle"
    /\ streamingVoices' = NoteOffVoices(streamingVoices, {midiNote})
    /\ UNCHANGED <<mappingsMutex, loadingState, loaderPc, loaderIdx,
                   loaderFolder, tempSamples, streamingSamples, noteMappings,
                   registered, audioPc, audioNote, audioLogLines,
                   loadsStarted>>
    /\ UNCHANGED notLoadVars

\* Note-ons and note-offs on a loaded library, and voices that play out.
StealNext ==
    \/ \E f \in OffsetFolders : OffsetLoad(f)
    \/ \E n \in StealNotes : StealNoteOn(n)
    \/ \E n \in StealNotes : StealNoteOff(n)
    \/ \E v \in VoiceSlots : AudioVoiceEnds(v)

Init ==
    RingInit /\ LoadInit /\ EngineInit(PedalVoices) /\ MapInit /\ ProcInit
    /\ AuxInit

(***************************************************************************)
(* Part K.  prepareToPlay: the processor clears its per-note state and the *)
(* pedal (Source/PluginProcessor.cpp), the engine clears every voice       *)
(* (Source/SamplerEngine.cpp).                                             *)
(***************************************************************************)
\* A prepareToPlay that leaves the stage of the voices as it is.
ClearedVoiceKeepingStage(voice) ==
    [voice EXCEPT !.active = FALSE, !.sample = -1, !.position = 0,
                  !.envLevel = 0]

\* SamplerEngine::prepareToPlay on one voice.
ClearedVoice(voice) ==
    [voice EXCEPT !.active = FALSE, !.sample = -1, !.position = 0,
                  !.envStage = "Idle", !.envLevel = 0]

\* A prepareToPlay that resets the pedal and leaves the sustained flags.
PrepareToPlayKeepingFlags ==
    /\ currentRoundRobin' = 1
    /\ sustainPedalDown' = FALSE
    /\ voices' = [v \in VoiceIds |-> ClearedVoice(voices[v])]
    /\ lastEvent' = [type |-> "prepareToPlay", note |-> 0, value |-> 0,
                     found |-> FALSE]
    /\ offCalls' = {}
    /\ relAge' = [v \in VoiceIds |-> -1]
    /\ offAge' = [v \in VoiceIds |-> -1]
    /\ UNCHANGED <<maxVoices, adsrParams, transposeAmount, relBound, offBound,
                   noteSustained>>
    /\ UNCHANGED notEngineVars

\* MidiKeyboardProcessor::prepareToPlay.
PrepareToPlay ==
    /\ noteSustained' = {}
    /\ currentRoundRobin' = 1
    /\ sustainPedalDown' = FALSE
    /\ voices' = [v \in VoiceIds |-> ClearedVoice(voices[v])]
    /\ lastEvent' = [type |-> "prepareToPlay", note |-> 0, value |-> 0,
                     found |-> FALSE]
    /\ offCalls' = {}
    /\ relAge' = [v \in VoiceIds |-> -1]
    /\ offAge' = [v \in VoiceIds |-> -1]
    /\ UNCHANGED <<maxVoices, adsrParams, transposeAmount, relBound, offBound>>
    /\ UNCHANGED notEngineVars

\* The keys, the pedal and prepareToPlay.
PrepareNext ==
    \/ PedalNext
    \/ PrepareToPlay

\* One key, frame-by-frame rendering and prepareToPlay.
SlotNext ==
    \/ \E k \in BurstKeys, vel \in PoolVelocities : HandleNoteOn(k, vel)
    \/ \E k \in BurstKeys : HandleNoteOff(k)
    \/ RenderBlock(1)
    \/ PrepareToPlay
    \/ \E f \in RamFolders : LoadSamplesInBackground(f)

\* setADSR arguments, one of them with a sustain level above 1.
LevelADSRInputs == {InitialADSR, <<1, 1, 60, 2>>}

\* One key, frame-by-frame rendering and the ADSR knobs.
LevelNext ==
    \/ \E k \in BurstKeys, vel \in PoolVelocities : HandleNoteOn(k, vel)
    \/ \E k \in BurstKeys : HandleNoteOff(k)
    \/ RenderBlock(1)
    \/ \E in \in LevelADSRInputs : SetADSR(in)
    \/ \E f \in RamFolders : LoadSamplesInBackground(f)

\* The streamer has the engine's voices registered.
InitStreamer ==
    /\ RingInit /\ LoadInit /\ EngineInit(PedalVoices) /\ MapInit /\ ProcInit
    /\ parseText = <<>>
    /\ lastParse = NoParse
    /\ StreamInit
    /\ StreamerRegistered

InitRelease ==
    RingInit /\ LoadInit /\ EngineInit(ReleaseVoices) /\ MapInit /\ ProcInit
    /\ AuxInit

InitBurst ==
    RingInit /\ LoadInit /\ EngineInit(BurstVoices) /\ MapInit /\ ProcInit
    /\ AuxInit

\* The parser is given one of the texts.
InitNoteName ==
    /\ RingInit /\ LoadInit /\ EngineInit(PedalVoices) /\ MapInit /\ ProcInit
    /\ parseText \in NoteNames
    /\ lastParse = NoParse
    /\ StreamInit
    /\ StreamerInit

InitFileName ==
    /\ RingInit /\ LoadInit /\ EngineInit(PedalVoices) /\ MapInit /\ ProcInit
    /\ parseText \in FileNames
    /\ lastParse = NoParse
    /\ StreamInit
    /\ StreamerInit

SpecLoad == Init /\ [][LoadNext]_vars

SpecRing == Init /\ [][RingNext]_vars

SpecStream == Init /\ [][StreamNext]_vars

SpecPedal == Init /\ [][PedalNext]_vars

SpecRelease == InitRelease /\ [][ReleaseNext]_vars

SpecBurst == InitBurst /\ [][BurstNext]_vars

SpecMap == Init /\ [][MapNext]_vars

SpecFind == Init /\ [][FindNext]_vars

SpecPreload == Init /\ [][PreloadNext]_vars

SpecJoin == Init /\ [][JoinNext]_vars

SpecRestore == Init /\ [][RestoreNext]_vars

SpecSetter == Init /\ [][SetterNext]_vars

SpecOffset == Init /\ [][OffsetNext]_vars

SpecSteal == Init /\ [][StealNext]_vars

SpecEnvelope == InitRelease /\ [][EnvelopeNext]_vars

SpecBlock == Init /\ [][BlockNext]_vars

SpecPrepare == Init /\ [][PrepareNext]_vars

SpecSlot == InitRelease /\ [][SlotNext]_vars

SpecLevel == InitRelease /\ [][LevelNext]_vars

SpecStreamer == InitStreamer /\ [][StreamerNext]_vars /\ StreamerFairness

SpecNoteName == InitNoteName /\ [][NoteNameNext]_vars

SpecFileName == InitFileName /\ [][FileNameNext]_vars

SpecWatermark == Init /\ [][WatermarkNext]_vars

SpecPool == Init /\ [][PoolNext]_vars

SpecScenario == Init /\ [][ScenarioNext]_vars

(***************************************************************************)
(* Claims about the ring buffer.                                           *)
(***************************************************************************)

\* C1: for every interleaving of the producer's write and the consumer's read,
\* write_pos - read_pos stays in [0, N]; a write in progress never reaches a
\* slot holding an unread frame (every unread slot still holds its frame), and
\* a read in progress never passes write_pos.
C1_RingBounds ==
    /\ writePos - readPos \in 0..RingN
    /\ pcW = "copy" => writePos + wI - readPos <= RingN
    /\ pcR = "copy" => readPos + Len(rDst) <= writePos
    /\ \A p \in readPos..(writePos - 1) : ring[Slot(p)] = SourceFrame(p + 1)

\* The producer calls write() on a full ring whose positions have wrapped.
C1_Witness ==
    /\ lastOp = "writeBegin"
    /\ writePos - readPos = RingN
    /\ writePos > RingN
    /\ wN = 0

\* C2: a finished read(n) returned exactly min(n, available_to_read()) frames,
\* and the frames ever read are, in order, the first frames ever written: none
\* lost, duplicated or reordered, also across the wrap at N.
C2_RingFifo ==
    /\ Len(readLog) = readPos
    /\ readPos <= writePos
    /\ \A i \in 1..Len(readLog) : readLog[i] = SourceFrame(i)
    /\ lastOp = "readPublish" => Len(rDst) = Min(rReq, rAvail)

\* One read() of at least two frames that wrapped from slot N-1 to slot 0.
C2_Witness ==
    /\ lastOp = "readPublish"
    /\ Len(rDst) >= 2
    /\ Slot(readPos - 1) < Slot(readPos - Len(rDst))

\* C3: a render call that finds the ring empty does not wait (its read is
\* complete at once), returns only silence, leaves read_pos alone and adds one
\* to the underrun counter; a later render call that finds frames returns the
\* next frame of the stream; and the counter goes down only by the reset.
C3_UnderrunSilence ==
    [][ /\ (pcR' = "copy" /\ rAvail' = 0) => Len(rDst') = rN'
        /\ (lastOp' = "readPublish" /\ rAvail = 0) =>
               /\ lastOut' = Silence(rReq)
               /\ readPos' = readPos
               /\ underrunCount' = underrunCount + 1
        /\ (lastOp' = "readPublish" /\ rAvail > 0) =>
               lastOut'[1] = SourceFrame(readPos + 1)
        /\ underrunCount' < underrunCount => lastOp' = "resetUnderrun"
      ]_vars

\* After an underrun was counted the ring was refilled and the voice's render
\* call returned frames again.
C3_Witness ==
    /\ lastOp = "readPublish"
    /\ underrunCount > 0
    /\ rAvail > 0
    /\ lastOut[1] = SourceFrame(readPos - rN + 1)
    /\ readPos > rN


(***************************************************************************)
(* Claims about the load beside the audio thread.                          *)
(***************************************************************************)

\* C4: whenever the published sample set has been replaced, no active voice
\* holds a record of a replaced set: every active voice's sample belongs to
\* the set that is published now.
C4_QuiescentSwap ==
    \A v \in VoiceSlots :
        streamingVoices[v].active => streamingVoices[v].gen = streamingSamples.gen

\* C5: the audio thread never owns mappingsMutex and never writes to a file.
C5_AudioThreadContract ==
    /\ mappingsMutex # "audio"
    /\ audioLogLines = 0

(***************************************************************************)
(* C6.  Per-note polyphony cap: whatever note-ons and process-block calls  *)
(* came before, the voices active on one MIDI note are never more than 4.  *)
(***************************************************************************)
ActiveOnNote(n) == {v \in VoiceIds : voices[v].active /\ voices[v].midiNote = n}

C6_PerNoteCap == \A n \in Keys : Cardinality(ActiveOnNote(n)) <= 4

(***************************************************************************)
(* C7.  Polyphonic same-note retrigger: a note-on for a note that a voice  *)
(* is already playing (and not fading) puts that voice into Release, does  *)
(* not stop or quick-fade it, and starts another voice in Attack.          *)
(***************************************************************************)
C7_PolyphonicRetrigger ==
    [][ \A n \in LoadNotes, o \in SampleOffsets :
          (/\ StreamingNoteOn(n, o)
           /\ FindStreamingSample(streamingSamples, noteMappings,
                                  Min(127, Max(0, n + o))) >= 0) =>
             \A v \in VoiceSlots :
                 (/\ streamingVoices[v].active
                  /\ streamingVoices[v].note = n
                  /\ ~streamingVoices[v].fading) =>
                     /\ streamingVoices'[v].active
                     /\ streamingVoices'[v].stage = "Release"
                     /\ ~streamingVoices'[v].fading
                     /\ \E u \in VoiceSlots \ {v} :
                           /\ streamingVoices'[u].active
                           /\ streamingVoices'[u].note = n
                           /\ streamingVoices'[u].stage = "Attack"
      ]_vars

C9_SustainPedal ==
    [][ /\ lastEvent'.type = "cc64" =>
              sustainPedalDown' = (lastEvent'.value >= 64)
        /\ (lastEvent'.type = "noteOff" /\ sustainPedalDown) =>
              /\ voices' = voices
              /\ offCalls' = {}
              /\ noteSustained' = noteSustained \cup {lastEvent'.note}
        /\ (lastEvent'.type = "cc64" /\ sustainPedalDown /\ ~sustainPedalDown') =>
              /\ offCalls' = noteSustained
              /\ noteSustained' = {}
              /\ \A v \in VoiceIds :
                    IF voices[v].active /\ voices[v].midiNote \in noteSustained
                    THEN voices'[v].envStage = "Release"
                    ELSE voices'[v] = voices[v]
        /\ (lastEvent'.type = "cc64" /\ ~(sustainPedalDown /\ ~sustainPedalDown')) =>
              /\ voices' = voices
              /\ offCalls' = {}
              /\ noteSustained' = noteSustained
      ]_vars

\* The pedal has just gone up: the sustained note's voice is in Release, a
\* voice of a held note is not.
C9_Witness ==
    /\ lastEvent.type = "cc64" /\ ~sustainPedalDown /\ offCalls # {}
    /\ \E v, u \in VoiceIds :
          /\ voices[v].active /\ voices[v].midiNote \in offCalls
          /\ voices[v].envStage = "Release"
          /\ voices[u].active /\ voices[u].midiNote \notin offCalls
          /\ voices[u].envStage # "Release"

(***************************************************************************)
(* C10.  NoArticulation is a no-op: a note-on whose lookup finds no sample *)
(* leaves every voice as it was and does not advance the round-robin.      *)
(***************************************************************************)
C10_NoArticulationNoOp ==
    [][ (lastEvent'.type = "noteOn" /\ ~lastEvent'.found) =>
            /\ voices' = voices
            /\ currentRoundRobin' = currentRoundRobin
      ]_vars

(***************************************************************************)
(* Claims about the instrument map.                                        *)
(***************************************************************************)
\* The samples of the loaded folder that belong to the note a lookup
\* resolves to and to the layer whose range holds the velocity.
SamplesOfLayer(midiNote, velocity) ==
    LET actualNote == ActualNote(libMappings, midiNote)
        layers == libMappings[actualNote].velocityLayers
        l == LayerOf(layers, velocity)
    IN {i \in 1..Len(libSamples) :
           /\ l # 0
           /\ libSamples[i].midiNote = actualNote
           /\ libSamples[i].velocity = layers[l].velocityValue}

\* C11: a lookup returns a sample of the resolved note and layer that has the
\* requested round-robin position whenever such a sample exists; only when
\* none exists it returns another sample of that note and layer; and it
\* returns nothing when the layer has no sample.
C11_RoundRobinPreference ==
    lastFind.op \in {"findSample", "findStreamingSample"} =>
        LET ofLayer == SamplesOfLayer(lastFind.midiNote, lastFind.velocity)
            wanted == {i \in ofLayer :
                          libSamples[i].roundRobin = lastFind.roundRobin}
        IN /\ wanted # {} => lastFind.result \in wanted
           /\ (wanted = {} /\ ofLayer # {}) => lastFind.result \in ofLayer
           /\ ofLayer = {} => lastFind.result = 0

\* C12: for a note that has own layers, every velocity from 1 to the highest
\* MIDI velocity resolves to exactly one layer of the note, and a velocity
\* above the top layer's velocity value resolves to the top layer.
C12_TotalVelocityLookup ==
    (/\ lastFind.op = "getVelocityLayerIndex"
     /\ NoteHasOwnSamples(libMappings, lastFind.midiNote)) =>
        LET layers == libMappings[lastFind.midiNote].velocityLayers
        IN /\ lastFind.result \in 0..(Len(layers) - 1)
           /\ lastFind.velocity > layers[Len(layers)].velocityValue
                  => lastFind.result = Len(layers) - 1

\* The notes that have a file in the loaded folder.
OwnNotes == {libSamples[i].midiNote : i \in 1..Len(libSamples)}

\* The velocities of the files of a note in the loaded folder.
VelocitiesOfNote(n) ==
    {libSamples[i].velocity : i \in {j \in 1..Len(libSamples) : libSamples[j].midiNote = n}}

\* C13: the velocity layers of every note are sorted strictly ascending by
\* velocity value, there is one layer per distinct velocity of the note's
\* files, the first layer's range starts at 1, every later range starts one
\* above the end of the previous range, and every range ends at the layer's
\* velocity value.
C13_VelocityRangeStructure ==
    \A n \in MidiNotes :
        LET layers == libMappings[n].velocityLayers
        IN /\ \A i \in 1..(Len(layers) - 1) :
                  layers[i].velocityValue < layers[i + 1].velocityValue
           /\ {layers[i].velocityValue : i \in 1..Len(layers)} = VelocitiesOfNote(n)
           /\ Len(layers) = Cardinality(VelocitiesOfNote(n))
           /\ Len(layers) > 0 => layers[1].velocityRangeStart = 1
           /\ \A i \in 2..Len(layers) :
                  layers[i].velocityRangeStart = layers[i - 1].velocityRangeEnd + 1
           /\ \A i \in 1..Len(layers) :
                  layers[i].velocityRangeEnd = layers[i].velocityValue

\* A loaded folder that lists the louder file of a note before the softer
\* one, so that the note has two layers and the sort reorders them.
C13_Witness ==
    /\ Len(libSamples) = 2
    /\ libSamples[1].midiNote = libSamples[2].midiNote
    /\ libSamples[1].velocity > libSamples[2].velocity
    /\ Len(libMappings[libSamples[1].midiNote].velocityLayers) = 2

\* C14: a note with own layers has no fallback; any other note falls back to
\* the smallest strictly greater note that has own layers; a note with no
\* own layers and none above has no mapping and is not available; a fallback
\* is never the note itself and never a note that has a fallback.
C14_FallbackTable ==
    \A n \in MidiNotes :
        LET higher == {h \in OwnNotes : h > n}
            fb == libMappings[n].fallbackNote
        IN /\ n \in OwnNotes =>
                  /\ NoteHasOwnSamples(libMappings, n)
                  /\ fb = -1
           /\ (n \notin OwnNotes /\ higher # {}) =>
                  /\ libMappings[n].present
                  /\ fb \in higher
                  /\ \A h \in higher : fb <= h
           /\ (n \notin OwnNotes /\ higher = {}) =>
                  /\ ~libMappings[n].present
                  /\ ~IsNoteAvailable(libMappings, n)
           /\ fb >= 0 =>
                  /\ fb > n
                  /\ NoteHasOwnSamples(libMappings, fb)
                  /\ libMappings[fb].fallbackNote = -1

\* A loaded folder with files for notes 1 and 2: note 0 falls back to note
\* 1, the nearer of the two, and the highest note has no mapping.
C14_Witness ==
    /\ OwnNotes = {1, 2}
    /\ libMappings[0].fallbackNote = 1
    /\ ~libMappings[MaxNote].present

\* The layer find must select under the linear remap: the layers in use are
\* the lowest min(velocity_layer_limit, layers of the note), and the velocity
\* picks one of them by its share of the velocity scale.
RemappedLayer(layers, velocity) ==
    LET effective == Min(velocityLayerLimit, Len(layers))
        index == ((velocity - 1) * effective) \div MaxVelocity
    IN Max(0, Min(effective - 1, index)) + 1

\* C15: a note-on whose target note has layers starts on a sample of the
\* layer the linear remap selects: index clamp(floor((velocity - 1) *
\* effective / highest velocity), 0, effective - 1) of the sorted layers,
\* where effective is the smaller of the velocity layer limit and the number
\* of layers of the note.
C15_LinearVelocityRemap ==
    LET actualNote == ActualNote(libMappings, lastFind.midiNote)
        layers == libMappings[actualNote].velocityLayers
    IN (lastFind.op = "noteOn" /\ layers # <<>>) =>
           /\ lastFind.result # 0
           /\ libSamples[lastFind.result].velocity =
                  layers[RemappedLayer(layers, lastFind.velocity)].velocityValue

C17_RoundRobinLimitRespected ==
    (lastFind.op = "noteOn" /\ lastFind.result # 0) =>
        libSamples[lastFind.result].roundRobin <= roundRobinLimit

(***************************************************************************)
(* Claims about load requests, setters and state restoration.              *)
(***************************************************************************)
\* C18: at most one loader thread runs at any time; a loader thread starts
\* only after every loader thread started before it has finished; and when
\* no call and no loader thread is in progress, the published map is the one
\* built by the thread that was started last.
C18_LoadsSerialized ==
    /\ Cardinality(RunningLoaders) <= 1
    /\ \A id \in RequestIds, earlier \in RequestIds :
           (earlier < id /\ loaders[id].pc # "none") =>
               loaders[earlier].pc \in {"none", "done"}
    /\ (requestPc = "idle" /\ RunningLoaders = {} /\ loadingThread # 0) =>
           noteMappings = loaders[loadingThread].folder.notes

\* A second load was requested while the first loader thread was running;
\* both have finished and the map is the second folder's, not the first's.
C18_Witness ==
    /\ 2 \in waited
    /\ loaders[1].pc = "done"
    /\ loaders[2].pc = "done"
    /\ loaders[1].folder.notes # loaders[2].folder.notes
    /\ requestPc = "idle"
    /\ noteMappings = loaders[2].folder.notes

\* The four settings a persisted state restores.
Settings == <<adsrParams, preloadSizeKB, transposeAmount, sampleOffsetAmount>>

\* C19: restoring the persisted state that was restored by the call before
\* leaves the ADSR, the preload size, the transpose and the sample offset as
\* they are; and restoring a state whose saved folder does not exist starts
\* no load and leaves the loading state, the loaded folder path and the map
\* as they are.
C19_RestoreIdempotentAndSafe ==
    [][\A st \in PersistedStates :
           SetStateInformation(st) =>
               /\ (lastCall.op = "setStateInformation" /\ lastCall.arg = st)
                      => UNCHANGED Settings
               /\ ~st.sampleFolder.exists =>
                      UNCHANGED <<requestPc, requestCount, loaders, loadingThread,
                                  loadingState, loadedFolderPath, noteMappings>>]_vars

\* A state whose folder is gone was restored twice in a row, after a folder
\* had been loaded: its out-of-range values are stored clamped, and the
\* loaded folder is still the one loaded before.
C19_Witness ==
    /\ lastCall.op = "setStateInformation"
    /\ lastCall.again
    /\ lastCall.arg.sampleFolder.path = "gone"
    /\ transposeAmount = 12
    /\ loadedFolderPath = "A"
    /\ loadingState = "Loaded"
    /\ noteMappings = {60}

\* C20: after any setter calls the attack, decay and release times are at
\* least the minimum stage time, the sustain level is between 0 and 1, the
\* preload size is between 32 and 1024 KB, and transpose and sample offset
\* are between -12 and 12; and a setter called with a value in range has
\* stored that value.
C20_SettersClamp ==
    /\ adsrParams.attack >= MinStageFrames
    /\ adsrParams.decay >= MinStageFrames
    /\ adsrParams.release >= MinStageFrames
    /\ adsrParams.sustain \in 0..Unit
    /\ preloadSizeKB \in 32..1024
    /\ transposeAmount \in -12..12
    /\ sampleOffsetAmount \in -12..12
    /\ (lastCall.op = "setTranspose" /\ lastCall.arg \in -12..12)
           => transposeAmount = lastCall.arg
    /\ (lastCall.op = "setSampleOffset" /\ lastCall.arg \in -12..12)
           => sampleOffsetAmount = lastCall.arg
    /\ (lastCall.op = "setPreloadSizeKB" /\ lastCall.arg \in 32..1024)
           => preloadSizeKB = lastCall.arg
    /\ (lastCall.op = "setADSR"
        /\ lastCall.arg[1] >= MinStageFrames /\ lastCall.arg[2] >= MinStageFrames
        /\ lastCall.arg[4] >= MinStageFrames /\ lastCall.arg[3] \in 0..Unit)
           => adsrParams = [attack |-> lastCall.arg[1], decay |-> lastCall.arg[2],
                            sustain |-> lastCall.arg[3], release |-> lastCall.arg[4]]

\* Every setter has been called with a value out of range, the last one
\* being the sample offset, and all four settings sit on a limit.
C20_Witness ==
    /\ lastCall = [op |-> "setSampleOffset", arg |-> 13]
    /\ sampleOffsetAmount = 12
    /\ transposeAmount = -12
    /\ preloadSizeKB = 1024
    /\ adsrParams = [attack |-> MinStageFrames, decay |-> MinStageFrames,
                     sustain |-> 0, release |-> MinStageFrames]


(***************************************************************************)
(* C21.  Sample offset changes the source, not the sounding note: a        *)
(* note-on for key k whose lookup finds a sample starts a voice on the     *)
(* transposed note (k + transpose, clamped to 0..127) while the sample is  *)
(* looked up at that note plus the offset (clamped); a note-off for k with *)
(* the pedal up releases exactly the active voices on the transposed note, *)
(* whatever the offset is, and leaves every other voice as it was.         *)
(***************************************************************************)
C21_OffsetChangesSourceOnly ==
    [][ \A k \in OffsetKeys :
          LET midiNote == Min(127, Max(0, k + transposeAmount))
              lookupNote == Min(127, Max(0, midiNote + sampleOffsetAmount))
          IN /\ (/\ \E vel \in OffsetVelocities : OffsetNoteOn(k, vel)
                 /\ FindStreamingSample(streamingSamples, noteMappings,
                                        lookupNote) >= 0) =>
                   /\ lastFind'.midiNote = lookupNote
                   /\ \E u \in VoiceSlots :
                         /\ streamingVoices'[u].active
                         /\ streamingVoices'[u].note = midiNote
                         /\ streamingVoices'[u].stage = "Attack"
                         /\ ~streamingVoices'[u].fading
                         /\ \A v \in VoiceSlots \ {u} :
                               streamingVoices'[v].note = streamingVoices[v].note
             /\ (OffsetNoteOff(k) /\ ~sustainPedalDown) =>
                   \A v \in VoiceSlots :
                       IF streamingVoices[v].active /\ streamingVoices[v].note = midiNote
                       THEN /\ streamingVoices'[v].active
                            /\ streamingVoices'[v].stage = "Release"
                       ELSE streamingVoices'[v] = streamingVoices[v]
      ]_vars

\* A voice started from another note's sample has been released by the
\* note-off of its own note.
C21_Witness ==
    /\ sampleOffsetAmount # 0
    /\ transposeAmount # 0
    /\ lastEvent.type = "noteOff"
    /\ lastFind.op = "noteOn"
    /\ lastFind.result >= 0
    /\ \E v \in VoiceSlots :
          /\ streamingVoices[v].active
          /\ streamingVoices[v].stage = "Release"
          /\ streamingVoices[v].note = lastEvent.note
          /\ lastFind.midiNote # streamingVoices[v].note
          /\ lastFind.midiNote =
                 Min(127, Max(0, streamingVoices[v].note + sampleOffsetAmount))

\* The stem's tokens as the claims about parse_name speak of them.
StemTokens == AddTokens(UpToLastOccurrenceOf(parseText, "."), "_")

\* A token that is decimal digits only, and as a velocity lies in 1..127.
IsNumber(token) == token # <<>> /\ \A i \in 1..Len(token) : token[i] \in Digits
GoodVelocityToken(token) ==
    IsNumber(token) /\ GetIntValue(token) >= 1 /\ GetIntValue(token) <= 127

(***************************************************************************)
(* C22.  Round-robin token acceptance: for a file name with at least three *)
(* tokens, a note token that parses and a velocity token in 1..127, the    *)
(* name is accepted exactly when the third token is decimal digits with a  *)
(* value of at least 1, whatever that value is, and the value is returned  *)
(* as the round-robin.                                                     *)
(***************************************************************************)
C22_RoundRobinAcceptance ==
    (/\ lastParse.op = "parseFileName"
     /\ Len(StemTokens) >= 3
     /\ ParseNoteName(StemTokens[1]) >= 0
     /\ GoodVelocityToken(StemTokens[2])) =>
        IF IsNumber(StemTokens[3]) /\ GetIntValue(StemTokens[3]) >= 1
        THEN lastParse.ok /\ lastParse.roundRobin = GetIntValue(StemTokens[3])
        ELSE ~lastParse.ok

\* The note name as the claim reads it: a letter, an optional '#' or a 'b'
\* followed by a digit, then a signed decimal octave.
ClaimedBase(letter) ==
    CASE letter \in {"C", "c"} -> 0 [] letter \in {"D", "d"} -> 2
      [] letter \in {"E", "e"} -> 4 [] letter \in {"F", "f"} -> 5
      [] letter \in {"G", "g"} -> 7 [] letter \in {"A", "a"} -> 9
      [] letter \in {"B", "b"} -> 11 [] OTHER -> -1

SignedDecimal(text) ==
    IF text # <<>> /\ Head(text) = "-" THEN IsNumber(Tail(text))
    ELSE IsNumber(text)

ClaimedNote(text) ==
    IF text = <<>> THEN -1
    ELSE
    LET sharp == Len(text) >= 2 /\ text[2] = "#"
        flat == /\ Len(text) >= 3
                /\ text[2] \in {"b", "B"}
                /\ text[3] \in Digits
        octave == SubSeq(text, IF sharp \/ flat THEN 3 ELSE 2, Len(text))
        base == ClaimedBase(text[1])
                  + (IF sharp THEN 1 ELSE IF flat THEN -1 ELSE 0)
        value == (GetIntValue(octave) + 1) * 12 + base
    IN IF ClaimedBase(text[1]) < 0 \/ ~SignedDecimal(octave) THEN -1
       ELSE IF value < 0 \/ value > 127 THEN -1
       ELSE value

(***************************************************************************)
(* C23.  Note-name parsing: parseNoteName returns (octave + 1) * 12 + base *)
(* for a letter C..B of either case, an optional '#' or 'b' before a       *)
(* digit, and a signed decimal octave, when the result lies in 0..127; it  *)
(* returns -1 for every other text: empty, unknown letter, missing or      *)
(* non-numeric octave, result out of range.                                *)
(***************************************************************************)
C23_NoteNameParsing ==
    lastParse.op = "parseNoteName" => lastParse.note = ClaimedNote(parseText)

(***************************************************************************)
(* C24.  File-name rejection and suffixes: parseFileName fails when the    *)
(* stem has fewer than three tokens, when the note token is empty or not a *)
(* note name, or when the velocity token is empty, has a non-digit or lies *)
(* outside 1..127; and the tokens after the third do not change what the   *)
(* call returns.                                                           *)
(***************************************************************************)
C24_FileNameRejection ==
    lastParse.op = "parseFileName" =>
        /\ (\/ Len(StemTokens) < 3
            \/ ClaimedNote(StemTokens[1]) < 0
            \/ ~GoodVelocityToken(StemTokens[2])) => ~lastParse.ok
        /\ Len(StemTokens) > 3 =>
              LET short == ParseFileName(JoinTokens(SubSeq(StemTokens, 1, 3)))
              IN /\ lastParse.ok = short.ok
                 /\ lastParse.note = short.note
                 /\ lastParse.velocity = short.velocity
                 /\ lastParse.roundRobin = short.roundRobin

ScenarioLookup ==
    /\ Len(libSamples) = 3
    /\ {libSamples[i] : i \in 1..Len(libSamples)} = ScenarioFiles
    /\ velocityLayerLimit = 3
    /\ roundRobinLimit = 1
    /\ lastFind.op = "findStreamingSample"

\* The lookup returned the file of note 1 with the given velocity value.
ReturnsLayer(velocity) ==
    /\ lastFind.result # 0
    /\ libSamples[lastFind.result] =
           [midiNote |-> 1, velocity |-> velocity, roundRobin |-> 1]

(***************************************************************************)
(* C28.  Scenario S3 as claimed (C4 is note 1, C#4 note 2; the layers 40,  *)
(* 80, 127 are 1, 2, 4; the velocities 1, 64, 127, 100 are 1, 2, 4, 3):    *)
(* find(C4, 1) returns the first layer's file, find(C4, 64) the second's,  *)
(* find(C4, 127) the third's, and find(C#4, 100) the third layer's file by *)
(* fallback from C#4 to C4.                                                *)
(***************************************************************************)
C28_ScenarioS3 ==
    ScenarioLookup =>
        /\ (lastFind.midiNote = 1 /\ lastFind.velocity = 1) => ReturnsLayer(1)
        /\ (lastFind.midiNote = 1 /\ lastFind.velocity = 2) => ReturnsLayer(2)
        /\ (lastFind.midiNote = 1 /\ lastFind.velocity = 4) => ReturnsLayer(4)
        /\ (lastFind.midiNote = 2 /\ lastFind.velocity = 3) => ReturnsLayer(4)

(***************************************************************************)
(* C28, amended.  The three lookups on C4 return the three layers' files;  *)
(* find(C#4, 100) returns nothing, because no note above C#4 has samples;  *)
(* find(B3, 100) returns the third layer's file by fallback from B3 to C4. *)
(***************************************************************************)
C28_ScenarioS3Upward ==
    ScenarioLookup =>
        /\ (lastFind.midiNote = 1 /\ lastFind.velocity = 1) => ReturnsLayer(1)
        /\ (lastFind.midiNote = 1 /\ lastFind.velocity = 2) => ReturnsLayer(2)
        /\ (lastFind.midiNote = 1 /\ lastFind.velocity = 4) => ReturnsLayer(4)
        /\ (lastFind.midiNote = 2 /\ lastFind.velocity = 3) => lastFind.result = 0
        /\ (lastFind.midiNote = 0 /\ lastFind.velocity = 3) => ReturnsLayer(4)

\* The lookup a semitone below the only sampled note has found the top layer.
C28_Witness ==
    /\ ScenarioLookup
    /\ lastFind.midiNote = 0
    /\ lastFind.velocity = 3
    /\ ReturnsLayer(4)

\* C29: a note-on with a found articulation starts its voice in an inactive
\* slot when there is one; when every slot is active the slot it takes is
\* that of the globally oldest voice, the least recently started one; and in
\* every case exactly one new voice, in Attack on the requested note, is
\* there afterwards and no other slot changes its note.
AllActive == \A v \in VoiceSlots : streamingVoices[v].active
OldestSlot == streamer.startOrder[1]
NewestSlot(order) == order[Len(order)]
C29_AllocationAndStealing ==
    [][\A n \in StealNotes :
          (StealNoteOn(n)
           /\ FindStreamingSample(streamingSamples, noteMappings, n) >= 0)
          => LET slot == NewestSlot(streamer'.startOrder)
             IN /\ ~AllActive => ~streamingVoices[slot].active
                /\ AllActive => slot = OldestSlot
                /\ streamingVoices'[slot] = StartVoice(n, streamingSamples.gen)
                /\ \A u \in VoiceSlots \ {slot} :
                      /\ streamingVoices'[u].active = streamingVoices[u].active
                      /\ streamingVoices'[u].note = streamingVoices[u].note
                      /\ streamingVoices'[u].stage = streamingVoices[u].stage]_vars

\* C30: a voice's envelope stage changes only by the table's transitions:
\* a note-on arms Attack at level 0; a frame takes Attack to Decay exactly
\* when the level reaches 1, Decay to Sustain exactly when the level falls to
\* the sustain level, keeps Sustain at the sustain level, and takes Release
\* to Idle, deactivating the voice, exactly when the level reaches 0; a
\* note-off on an active voice goes to Release.
NoteOnStep == \E k \in BurstKeys, vel \in PoolVelocities : HandleNoteOn(k, vel)
NoteOffStep == \E k \in BurstKeys : HandleNoteOff(k)
FrameStep(v) == RenderBlock(1) /\ voices[v].active /\ voices[v].sample >= 0
NextLevel(v) == voices[v].envLevel + voices[v].envIncrement
\* The stage a frame leaves the voice in by the envelope's table.
TableStage(v) ==
    CASE voices[v].envStage = "Attack" ->
           IF NextLevel(v) >= Unit THEN "Decay" ELSE "Attack"
      [] voices[v].envStage = "Decay" ->
           IF NextLevel(v) <= adsrParams.sustain THEN "Sustain" ELSE "Decay"
      [] voices[v].envStage = "Sustain" -> "Sustain"
      [] voices[v].envStage = "Release" ->
           IF NextLevel(v) <= 0 THEN "Idle" ELSE "Release"
      [] OTHER -> "Idle"
\* The level the table gives on entering a stage, and in Sustain.
TableLevelHolds(v) ==
    /\ (voices[v].envStage = "Attack" /\ voices'[v].envStage = "Decay")
           => voices'[v].envLevel = Unit
    /\ voices'[v].envStage = "Sustain"
           => voices'[v].envLevel = adsrParams.sustain
    /\ (voices[v].envStage = "Release" /\ voices'[v].envStage = "Idle")
           => voices'[v].envLevel = 0 /\ ~voices'[v].active
\* Outside the frames the stage changes by a note-on to Attack at level 0 or
\* by a note-off on an active voice to Release.
EventStageChange(v) ==
    voices'[v].envStage # voices[v].envStage
        => \/ /\ NoteOnStep
              /\ voices'[v].envStage = "Attack"
              /\ voices'[v].envLevel = 0
           \/ /\ NoteOffStep
              /\ voices[v].active
              /\ voices'[v].envStage = "Release"
EndOfSample(v) ==
    voices[v].position >= (SampleLength[voices[v].sample] - 1) * PosUnit
AllVoicesFree == \A v \in VoiceIds : ~voices[v].active
C31_IntraBlockTiming ==
    [][\A messages \in MidiBuffers :
          (ProcessBlock(messages) /\ AllVoicesFree /\ noteMappings # {}
           /\ Len(messages) <= maxVoices)
          => \A i \in 1..Len(messages) :
                /\ voices'[i].active
                /\ voices'[i].midiNote = MidiNote(messages[i].key, transposeAmount)
                /\ voices'[i].position
                      <= (BlockSize - messages[i].samplePosition)
                         * voices'[i].pitchRatio]_vars

\* C32: every note-on that plays advances the round-robin position to
\* (position mod round_robin_limit) + 1, the limit being the number of
\* positions detected in the library unless it was set, and leaves the
\* position in 1..round_robin_limit.
C32_RoundRobinCycling ==
    [][\A streamingEnabled \in BOOLEAN, n \in PreloadNotes,
          vel \in MidiVelocities :
          (ProcessorNoteOn(streamingEnabled, n, vel) /\ lastFind'.result # 0
           /\ currentRoundRobin \in 1..roundRobinLimit)
          => /\ currentRoundRobin' = (currentRoundRobin % roundRobinLimit) + 1
             /\ currentRoundRobin' \in 1..roundRobinLimit]_vars

\* C33: under fair scheduling of the disk thread every active voice whose
\* ring is below the low watermark and whose stream has not ended eventually
\* receives a chunk of at most CHUNK frames; the chunks written to a voice's
\* ring are consecutive source frames from the preload end on, each read
\* starting where the frames delivered so far end; and within one tick a
\* candidate with fewer readable frames is served before one with more.
WaitsForData(s) ==
    streamer.voices[s].active /\ NeedsData(streamer.voices[s])
ChunkReceived(s) ==
    /\ streamer.last.op = "serve"
    /\ streamer.last.slot = s
    /\ streamer.last.n <= ChunkFrames
ChunksConsecutive ==
    /\ \A s \in StreamerSlots :
          streamer.voices[s].fetched
              = streamer.voices[s].preloadEnd + streamer.delivered[s]
    /\ streamer.last.op = "serve"
          => streamer.last.from + streamer.last.n
                 = streamer.voices[streamer.last.slot].fetched
MostUrgentFirst ==
    ServeCandidate
        => \A i \in 2..Len(streamer.queue) :
              streamer.queue[1].available <= streamer.queue[i].available
LookupKey == [midiNote |-> lastFind.midiNote, velocity |-> lastFind.velocity,
              roundRobin |-> lastFind.roundRobin]
FilesOfKey(key) == {i \in 1..Len(libSamples) : libSamples[i] = key}
LookupOfDuplicate(op) ==
    /\ lastFind.op = op
    /\ Cardinality(FilesOfKey(LookupKey)) >= 2
LastOfKey(key) == CHOOSE i \in FilesOfKey(key) : \A j \in FilesOfKey(key) : j <= i
C34_LastWriteWins ==
    /\ LookupOfDuplicate("findSample")
           => lastFind.result = LastOfKey(LookupKey)
    /\ LookupOfDuplicate("findStreamingSample")
           => lastFind.result = LastOfKey(LookupKey)

\* C34 (amended): the RAM lookup returns the file processed last; the
\* streaming lookup returns the first file in scan order that carries the
\* key's note and velocity, so of two files with the same key it never
\* returns the later one.
FirstOfNoteAndVelocity(key) ==
    CHOOSE i \in 1..Len(libSamples) :
        /\ libSamples[i].midiNote = key.midiNote
        /\ libSamples[i].velocity = key.velocity
        /\ \A j \in 1..(i - 1) :
               ~(libSamples[j].midiNote = key.midiNote
                 /\ libSamples[j].velocity = key.velocity)
C34_LastInRamFirstInStreaming ==
    /\ LookupOfDuplicate("findSample")
           => lastFind.result = LastOfKey(LookupKey)
    /\ LookupOfDuplicate("findStreamingSample")
           => /\ lastFind.result = FirstOfNoteAndVelocity(LookupKey)
              /\ lastFind.result # LastOfKey(LookupKey)

C34_Witness ==
    /\ LookupOfDuplicate("findStreamingSample")
    /\ lastFind.result = 1
    /\ LastOfKey(LookupKey) = 2

\* C36: at every moment each active streaming voice is registered with the
\* DiskStreamer, the voices started by note-ons that arrive while a library
\* load is in progress (after the loader has unregistered the voices and
\* before it registers them again) included.
C36_ActiveVoicesRegistered ==
    \A v \in VoiceSlots : streamingVoices[v].active => registered[v]

\* C38: after any sequence of note-on, note-off, controller-64 and
\* prepareToPlay events, whenever the sustained flag of a note is set the
\* sustain pedal state is down; with the pedal state up every sustained flag
\* is clear.
C38_SustainedImpliesPedalDown ==
    /\ noteSustained # {} => sustainPedalDown
    /\ ~sustainPedalDown => \A n \in 0..127 : n \notin noteSustained

\* A note-off under the pedal has just set the sustained flag of a note
\* that is sounding.
C38_Witness ==
    /\ noteSustained # {}
    /\ sustainPedalDown
    /\ lastEvent.type = "noteOff"
    /\ \E v \in VoiceIds : voices[v].active /\ voices[v].midiNote \in noteSustained

\* C39: after every noteOn, noteOff, prepareToPlay and processBlock call each
\* voice slot is consistent: an active voice has a sample and a stage other
\* than Idle, an inactive one is in Idle.  And a voice frees its slot when
\* processBlock keeps being called: every rendered frame moves an active
\* voice forward by its pitch ratio (which is positive) or deactivates it,
\* and the frame that finds the position at the last source frame
\* deactivates it, released or not.
SlotConsistent(v) ==
    /\ voices[v].active => (voices[v].sample >= 0 /\ voices[v].envStage # "Idle")
    /\ ~voices[v].active => voices[v].envStage = "Idle"
FrameMovesOrFrees(v) ==
    IF EndOfSample(v) THEN ~voices'[v].active
    ELSE \/ ~voices'[v].active
         \/ voices'[v].position = voices[v].position + voices[v].pitchRatio
C39_VoiceSlotConsistency ==
    /\ [](\A v \in VoiceIds :
             /\ SlotConsistent(v)
             /\ voices[v].active => voices[v].pitchRatio > 0)
    /\ [][\A v \in VoiceIds : FrameStep(v) => FrameMovesOrFrees(v)]_vars

\* A voice that was never released has played to the last frame of its
\* sample, and the next frame has freed its slot: it stopped in Sustain.
C39_Witness ==
    \E v \in VoiceIds :
        /\ lastEvent.type = "render"
        /\ ~voices[v].active
        /\ voices[v].envStage = "Idle"
        /\ voices[v].position >= (SampleLen - 1) * PosUnit
        /\ voices[v].envLevel = adsrParams.sustain
        /\ voices[v].envLevel > 0
        /\ voices[v].envIncrement = 0

\* C40: the envelope level of every voice that is mixed into the output is
\* within [0, 1], for every setting setADSR accepts and every order of
\* note-ons, note-offs and setADSR calls between the rendered frames.
C40_EnvelopeLevelBounds ==
    \A v \in VoiceIds :
        voices[v].active => (voices[v].envLevel >= 0 /\ voices[v].envLevel <= Unit)

\* A frame has been rendered at level 1 in Sustain, after setADSR was given
\* a sustain level above 1.
C40_Witness ==
    \E v \in VoiceIds :
        /\ lastEvent.type = "render"
        /\ voices[v].active
        /\ voices[v].envStage = "Sustain"
        /\ voices[v].envLevel = Unit
        /\ adsrParams.sustain = Unit

\* C37: a pedal-up sends a note-off for a note only if the note's most
\* recent key event was a note-off received while the pedal was down; a key
\* that was released and pressed again under the pedal and is still held is
\* spared.  The sustained flag of a note is that record, step by step: a
\* note-on of the note clears it, only a note-off of the note under the pedal
\* sets it, and the pedal's up-edge sends its note-offs to the flagged notes
\* and to no other, leaving the voices of every other note as they are.
NoteOnClearsFlag ==
    \A k \in Keys, vel \in Velocities :
        HandleNoteOn(k, vel) => MidiNote(k, transposeAmount) \notin noteSustained'
OnlyNoteOffUnderPedalFlags ==
    \A n \in noteSustained' \ noteSustained :
        \E k \in Keys : /\ HandleNoteOff(k)
                        /\ MidiNote(k, transposeAmount) = n
                        /\ sustainPedalDown
PedalUpReleasesFlaggedOnly ==
    \A value \in ControllerValues :
        HandleSustainPedal(value)
        => /\ offCalls' = IF sustainPedalDown /\ value < 64
                          THEN noteSustained ELSE {}
           /\ \A v \in VoiceIds :
                  voices[v].midiNote \notin noteSustained => voices'[v] = voices[v]
TransposeAmounts == {0} \cup {ClampSemitones(s) : s \in TransposeSemitones}
NotesOfKey(k) == {MidiNote(k, t) : t \in TransposeAmounts}
C35_NoStuckNotes ==
    [][\A k \in OffsetKeys :
          (OffsetNoteOff(k) /\ ~sustainPedalDown)
          => \A v \in VoiceSlots :
                 (streamingVoices'[v].active
                  /\ streamingVoices'[v].note \in NotesOfKey(k))
                 => streamingVoices'[v].stage = "Release"]_vars
=============================================================================
